---- MODULE Spec2Model ----
(***************************************************************************)
(* Trading cycle, risk gates, execution and ledger of the two simulators   *)
(* of the repository:                                                      *)
(*   "adv"  : AdvancedTradingSimulator   (src/trading_simulator.py)        *)
(*   "dash" : TradingSimulator           (src/trading_dashboard.py)        *)
(*                                                                         *)
(* Arithmetic.  The code computes in binary floating point; the model      *)
(* computes the same expressions exactly, over integers.  Money (cash,     *)
(* prices, fees, total_value, daily_pnl) is counted in units of 2.5 cents  *)
(* (40 units = 1 dollar).  Prices are drawn from multiples of 25 dollars   *)
(* and the confidences of the advanced simulator from multiples of 0.2, so *)
(* that every product, the 0.5 % half spread and the 0.1 % commission are  *)
(* whole numbers of units (ExactArithmetic below checks it).               *)
(*                                                                         *)
(* Randomness.  random.gauss / random.uniform draws are the inputs of a    *)
(* cycle.  A price draw is modelled by the new price it produces, taken    *)
(* from a finite grid of positive prices: CPython's random.gauss is        *)
(* bounded by sqrt(-2 ln 2^-53) < 8.58 standard deviations and the largest *)
(* standard deviation of an unfloored asset is below 0.03, so a generated  *)
(* price is always strictly positive.  The indicator values that the       *)
(* signal code reads (the two strategies' outputs in "adv"; vwap, rsi and  *)
(* the volume ratio in "dash") are functions of that random history and    *)
(* are drawn from sets that cover every branch of the signal code.         *)
(***************************************************************************)
EXTENDS Integers, Sequences, FiniteSets, TLC

VARIABLES
    sim,          \* which simulator class this instance is: "adv" or "dash"
    running,      \* self.running
    pc,           \* position of the cycle thread: "idle", "ticks", "signals",
                  \* "symbols", "ledger"; "raised" after an uncaught exception
    idx,          \* index into Assets of the next symbol of the per-symbol loop
    price,        \* asset.base_price ("adv") / assets[s]['price'] ("dash")
    market_data,  \* "adv": self.market_data[s], NoData before the first tick
    cash,         \* portfolio cash
    positions,    \* portfolio positions, a missing key read as 0 (positions.get(s, 0))
    trades,       \* self.trades ("adv") / portfolio['trades'] ("dash")
    trade_count,  \* "dash": self.trade_count
    total_value,  \* portfolio total_value
    daily_pnl,    \* portfolio daily_pnl
    performance,  \* performance_metrics ("adv") / performance_history ("dash")
    call,         \* arguments and outcome of the execute_trade call of the last loop
                  \* step, while the cycle that made it is in flight
    events,       \* what the cycle in flight has done so far, in order: the ticks
                  \* generated and the execute_trade calls made
    status,       \* the dictionary get_status returned to a caller that has not yet
                  \* sent it on, NoStatus otherwise
    fusion,       \* a pair of strategy outputs and the signal fused from it
    max_drawdown, \* portfolio max_drawdown, an exact fraction [num, den]
    total_pnl,    \* portfolio total_pnl
    cycles,       \* number of cycles completed so far
    horizon,      \* "short": a few cycles over every input; "long": one fixed
                  \* market path, long enough for the history windows to slide
    calc          \* an indicator or strategy function applied on its own: its
                  \* name, its arguments and, once applied, its result

vars == <<sim, running, pc, idx, price, market_data, cash, positions, trades,
          trade_count, total_value, daily_pnl, performance, call, events, status,
          fusion, max_drawdown, total_pnl, cycles, horizon, calc>>

----------------------------------------------------------------------------
(* Bounds of the model. *)

\* Number of cycles (run_simulation_step / update_market_data calls that run).
MaxCycles == 3

\* Number of logged trades after which the strategies only signal HOLD.
MaxTrades == 3

\* Number of cycles of the long run: enough for the 200 snapshots and the 200
\* trades of the dashboard's windows to be exceeded.
LongCycles == 206

----------------------------------------------------------------------------
(* Program constants. *)

InitialCapital == 1000000          \* dollars
AdvMaxPositionPct == 10            \* RiskManager.max_position_size = 0.1
AdvMaxDailyLossPct == 5            \* RiskManager.max_daily_loss = 0.05
DashMaxPositionPct == 15           \* portfolio['max_position_size'] = 0.15
DashDailyLossLimitPct == 3         \* portfolio['daily_loss_limit'] = 0.03
CorrelationThresholdPct == 70      \* RiskManager.correlation_threshold = 0.7
CommissionPerMille == 1            \* fees = trade_value * 0.001
ConfidenceThreshold == 300         \* confidence > 0.3, in thousandths
BaseSize == 1000                   \* quantity = int(1000 * confidence)
HistoryCap == 200                  \* "dash": last 200 trades / snapshots kept

Dollars(d) == 40 * d

\* The assets of the model, in the iteration order of self.assets.  Both
\* simulators list BTC before ETH; both are of class crypto in both.
Assets == <<"BTC", "ETH">>
Symbols == {Assets[i] : i \in 1..Len(Assets)}

\* Asset.correlation_matrix, in percent; a missing entry reads as 0.
correlation_matrix(s, t) ==
    IF (s = "BTC" /\ t = "ETH") \/ (s = "ETH" /\ t = "BTC") THEN 80 ELSE 0

\* The price each asset is constructed with.
InitialPrice(sm, s) ==
    IF sm = "adv"
    THEN (IF s = "BTC" THEN Dollars(45000) ELSE Dollars(3000))
    ELSE (IF s = "BTC" THEN Dollars(43250) ELSE Dollars(2650))

\* The prices a tick can produce (the image of the Gaussian draw).  The grids
\* are wide on purpose: a position bought low and marked high inflates
\* total_value, which is what lets a later trade pass the position-size gate
\* and still exceed the cash at hand.
PriceLevels(sm, s) ==
    IF sm = "adv"
    THEN (IF s = "BTC" THEN {Dollars(100), Dollars(12500)}
                       ELSE {Dollars(25), Dollars(100), Dollars(1250)})
    ELSE (IF s = "BTC" THEN {Dollars(40000), Dollars(200000)}
                       ELSE {Dollars(100), Dollars(2000)})

\* The long run, cycle n: the advanced simulator sees BTC at 100, at 12,500
\* in cycle 2 and at 100 again, ETH flat; the dashboard sees ETH at 2,000 in
\* cycle 1 and at 100 afterwards, BTC flat.
LongPrice(sm, s, n) ==
    IF sm = "adv"
    THEN (IF s = "BTC" /\ n = 2 THEN Dollars(12500) ELSE Dollars(100))
    ELSE (IF s = "BTC" THEN Dollars(40000)
          ELSE IF n = 1 THEN Dollars(2000) ELSE Dollars(100))

NoData == [price |-> 0, bid |-> 0, ask |-> 0, present |-> FALSE]
NoCall == [attempted |-> FALSE, symbol |-> "", side |-> "", requested |-> 0,
           quantity |-> 0, price |-> 0, ret |-> "none"]

\* No get_status reply is held; no pair of strategy outputs is at hand.
NoStatus == [present |-> FALSE]
NoFusion == [present |-> FALSE]
NoCalc == [present |-> FALSE]

\* round(x, 2) of an amount of money: an amount of whole cents (an even
\* number of units) is returned as it is.  ExactArithmetic checks that every
\* amount the advanced simulator reports is one.
round2(x) == x

\* What get_status returns.  The advanced simulator builds a new dictionary
\* from the portfolio's fields, with total_pnl computed on the spot as
\* total_value - 1000000; the dashboard returns its own dictionaries and
\* lists, which send_api_response serialises as they are when it runs.
StatusOf ==
    IF sim = "adv"
    THEN [present |-> TRUE, running |-> running,
          total_value |-> round2(total_value), cash |-> round2(cash),
          daily_pnl |-> round2(daily_pnl),
          total_pnl |-> round2(total_value - Dollars(1000000)),
          positions |-> positions, total_trades |-> Len(trades)]
    ELSE [present |-> TRUE, running |-> running, assets |-> price,
          total_value |-> total_value, cash |-> cash, daily_pnl |-> daily_pnl,
          total_pnl |-> total_pnl, max_drawdown |-> max_drawdown,
          positions |-> positions, trades |-> trades,
          performance_history |-> performance]

\* The entries of events.
Tick(s) == [kind |-> "tick", symbol |-> s, executed |-> FALSE]
TradeCall(s, ret) == [kind |-> "trade", symbol |-> s, executed |-> (ret = "executed")]

\* Cycles a run may take, and the prices the tick of the next cycle can
\* produce.
CycleLimit == IF horizon = "long" THEN LongCycles ELSE MaxCycles
TickPrices(s) ==
    IF horizon = "long" THEN {LongPrice(sim, s, cycles + 1)} ELSE PriceLevels(sim, s)

\* Euclid's algorithm, on values: each remainder is worked out once.
GCD(a, b) ==
    LET gcd[x \in Int, y \in Int] == IF y = 0 THEN x ELSE gcd[y, x % y]
    IN gcd[a, b]

\* The quotient n / d (d > 0) as a fraction in lowest terms.
Ratio(n, d) == LET g == GCD(n, d) IN [num |-> n \div g, den |-> d \div g]

\* a / b < c / d for b, d > 0, by continued fractions: no product is formed.
FracLess(a, b, c, d) ==
    LET less[w \in Int, x \in Int, y \in Int, z \in Int] ==
            IF w \div x # y \div z THEN w \div x < y \div z
            ELSE IF y % z = 0 THEN FALSE
            ELSE IF w % x = 0 THEN TRUE
            ELSE less[z, y % z, x, w % x]
    IN less[a, b, c, d]

RatioLess(x, y) == FracLess(x.num, x.den, y.num, y.den)

RECURSIVE Digits(_)
\* The decimal digits of n >= 0, most significant first.
Digits(n) == IF n < 10 THEN <<n>> ELSE Append(Digits(n \div 10), n % 10)

\* f"T{n:06d}": the digits of n after the T, padded with zeros to six places.
trade_id(n) ==
    LET d == Digits(n)
        pad == 6 - Len(d)
    IN IF pad <= 0 THEN d
       ELSE [i \in 1..6 |-> IF i <= pad THEN 0 ELSE d[i - pad]]

\* floor(x * pct / 100) for x >= 0, without leaving 32-bit integers.
PctOf(x, pct) == pct * (x \div 100) + (pct * (x % 100)) \div 100


RECURSIVE SumOver(_, _)
\* sum of f[s] over the symbols of the sequence q
SumOver(f, q) == IF q = <<>> THEN 0 ELSE f[Head(q)] + SumOver(f, Tail(q))

\* fees = trade_value * 0.001
Fees(trade_value) == (trade_value * CommissionPerMille) \div 1000

\* The BUY test with the comparison against the cost left out.
SufficientCashUntested(c, trade_value, fees) == c >= 0

\* The BUY test of both simulators: cash >= trade_value + fees.
SufficientCash(c, trade_value, fees) == c >= trade_value + fees

\* The SELL test comparing the holding with zero instead of the quantity.
SufficientPositionAnyHolding(held, quantity) == held >= 0

\* The SELL test of both simulators: positions.get(symbol, 0) >= quantity.
SufficientPosition(held, quantity) == held >= quantity

\* What an execute_trade call leaves behind: its outcome, the quantity it went
\* on with, and the portfolio and trade log after it.
Outcome(ret, q, c, pos, tr, tc) ==
    [ret |-> ret, quantity |-> q, cash |-> c, positions |-> pos, trades |-> tr,
     trade_count |-> tc]

\* A rejection that raises instead of returning.
UnchangedRaising(ret, q) ==
    Outcome(IF ret = "rejected" THEN "raised" ELSE ret, q, cash, positions, trades,
            trade_count)

\* The early returns of execute_trade / _execute_trade: nothing is touched.
Unchanged(ret, q) == Outcome(ret, q, cash, positions, trades, trade_count)

----------------------------------------------------------------------------
(* AdvancedTradingSimulator and its RiskManager (src/trading_simulator.py) *)

\* RiskManager.check_position_limit: abs(quantity * price) / portfolio_value
\* <= max_position_size, for quantity, price >= 0 and portfolio_value > 0.
check_position_limit(quantity, p, portfolio_value) ==
    quantity * p <= PctOf(portfolio_value, AdvMaxPositionPct)

\* RiskManager.check_correlation_risk.  No code of the repository calls it.
check_correlation_risk(new_symbol, existing_positions) ==
    \A s \in Symbols :
        existing_positions[s] # 0 =>
            ~(correlation_matrix(new_symbol, s) > CorrelationThresholdPct
              \/ correlation_matrix(new_symbol, s) < -CorrelationThresholdPct)

\* The Trade record with the commission left out.
AdvTradeWithoutFees(s, side, q, p, fees) ==
    [id |-> trade_id(Len(trades) + 1), symbol |-> s, side |-> side, quantity |-> q,
     price |-> p, fees |-> 0]

\* Trade(id = f"T{len(self.trades)+1:06d}", ...)
AdvTrade(s, side, q, p, fees) ==
    [id |-> trade_id(Len(trades) + 1), symbol |-> s, side |-> side, quantity |-> q,
     price |-> p, fees |-> fees]

\* AdvancedTradingSimulator.execute_trade.  The division by portfolio_value in
\* check_position_limit raises ZeroDivisionError when total_value is 0.
execute_trade(s, side, q, p) ==
    IF total_value = 0 THEN Unchanged("raised", q)
    ELSE IF ~check_position_limit(q, p, total_value) THEN Unchanged("rejected", q)
    ELSE LET trade_value == q * p
             fees == Fees(trade_value)
         IN IF side = "BUY"
            THEN IF ~SufficientCash(cash, trade_value, fees)
                 THEN Unchanged("rejected", q)
                 ELSE Outcome("executed", q, cash - (trade_value + fees),
                              [positions EXCEPT ![s] = @ + q],
                              Append(trades, AdvTrade(s, side, q, p, fees)),
                              trade_count)
            ELSE IF ~SufficientPosition(positions[s], q)
                 THEN Unchanged("rejected", q)
                 ELSE Outcome("executed", q, cash + (trade_value - fees),
                              [positions EXCEPT ![s] = @ - q],
                              Append(trades, AdvTrade(s, side, q, p, fees)),
                              trade_count)

\* generate_market_data for a non-stock asset: spread = price * 0.01,
\* bid = price - spread / 2, ask = price + spread / 2.
MarketData(p) ==
    [price |-> p, bid |-> p - p \div 200, ask |-> p + p \div 200, present |-> TRUE]

\* What the two strategies can return, confidence in thousandths.
\* generate_signal returns HOLD with a confidence of at most 0.02.
Signal(a, c) == [action |-> a, confidence |-> c]
VwapOutputs == {Signal("HOLD", 0), Signal("BUY", 800), Signal("SELL", 800)}
MrOutputs == {Signal("HOLD", 0), Signal("BUY", 800), Signal("SELL", 800)}

\* The long run: both strategies signal BUY for BTC in cycle 1 and HOLD
\* otherwise.
LongOutputs(s, n) ==
    IF s = "BTC" /\ n = 1 THEN <<Signal("BUY", 800), Signal("BUY", 800)>>
    ELSE <<Signal("HOLD", 0), Signal("HOLD", 0)>>

\* A lone signal at or under the 0.3 threshold, next to a HOLD.
WeakOutputs == {<<Signal("BUY", 300), Signal("HOLD", 0)>>,
                <<Signal("HOLD", 0), Signal("SELL", 200)>>}

\* The pairs (vwap output, mean-reversion output) a loop step can meet.
StrategyOutputs == (VwapOutputs \X MrOutputs) \cup WeakOutputs

\* The pairs the loop step of the next cycle can meet for symbol s.
SignalPairs(s) ==
    IF horizon = "long" THEN {LongOutputs(s, cycles + 1)} ELSE StrategyOutputs

\* The fusion with the lower of the two confidences when one signal is HOLD.
FuseSignalsLowerConfidence(v, m) ==
    IF v.action # "HOLD" /\ m.action # "HOLD"
    THEN IF v.action = m.action
         THEN Signal(v.action, (v.confidence + m.confidence) \div 2)
         ELSE Signal("HOLD", 0)
    ELSE Signal(IF v.action # "HOLD" THEN v.action ELSE m.action,
                IF v.confidence <= m.confidence THEN v.confidence ELSE m.confidence)

\* The fusion of run_simulation_step.
FuseSignals(v, m) ==
    IF v.action # "HOLD" /\ m.action # "HOLD"
    THEN IF v.action = m.action
         THEN Signal(v.action, (v.confidence + m.confidence) \div 2)
         ELSE Signal("HOLD", 0)
    ELSE Signal(IF v.action # "HOLD" THEN v.action ELSE m.action,
                IF v.confidence >= m.confidence THEN v.confidence ELSE m.confidence)

\* update_portfolio_value with the positions left out of the sum.
AdvPortfolioValueCashOnly == cash

\* update_portfolio_value: cash + sum of quantity * market_data[symbol].price
\* over the non-zero positions whose symbol has market data.
AdvPortfolioValue ==
    cash + SumOver([s \in Symbols |->
                      IF positions[s] # 0 /\ market_data[s].present
                      THEN positions[s] * market_data[s].price ELSE 0], Assets)

Snapshot(tv, c) == [total_value |-> tv, cash |-> c]

\* The drawdown measured against the current value instead of the peak.
drawdownOverValue(peak, value) == Ratio(peak - value, value)

\* dd = (peak - metric['total_value']) / peak
drawdown(peak, value) == Ratio(peak - value, peak)

\* One pass of the max-drawdown loop: peak and max_dd after entry i.
dd_step(st, history, i) ==
    LET value == history[i].total_value
        pk == IF value > st.peak THEN value ELSE st.peak
        dd == drawdown(pk, value)
    IN [peak |-> pk, max_dd |-> IF RatioLess(st.max_dd, dd) THEN dd ELSE st.max_dd]

RECURSIVE dd_loop(_, _, _, _)
\* The max-drawdown loop of both metric functions over entries lo..hi, in
\* order.  The entries are taken by halves, the first half before the
\* second is entered, which keeps the evaluation shallow.
dd_loop(st, history, lo, hi) ==
    IF lo = hi THEN dd_step(st, history, lo)
    ELSE LET mid == (lo + hi) \div 2
         IN CHOOSE last \in {dd_loop(first, history, mid + 1, hi) :
                                first \in {dd_loop(st, history, lo, mid)}} : TRUE

\* returns is non-empty: some snapshot but the last has total_value > 0.
has_returns(history) ==
    \E i \in 1..(Len(history) - 1) : history[i].total_value > 0

\* The division by peak raises ZeroDivisionError when the first snapshot's
\* total_value is 0.
metrics_raise(history) ==
    Len(history) >= 2 /\ has_returns(history) /\ history[1].total_value = 0

\* _calculate_advanced_metrics / _calculate_performance_metrics: the
\* portfolio's max_drawdown after the call, old being its value before.
calculate_max_drawdown(history, old) ==
    IF Len(history) < 2 \/ ~has_returns(history) THEN old
    ELSE CHOOSE max_dd \in
             {dd_loop(st, h, 1, Len(h)).max_dd :
                 st \in {[peak |-> history[1].total_value, max_dd |-> Ratio(0, 1)]},
                 h \in {history}} : TRUE

\* The daily P&L measured against the initial capital instead of the last
\* snapshot.
DailyPnlSinceStart(tv, history) == tv - Dollars(InitialCapital)

\* The daily P&L of both ledgers: total_value minus the total_value of the
\* last snapshot, 0.0 when there is none.
DailyPnl(tv, history) ==
    IF history # <<>> THEN tv - history[Len(history)].total_value ELSE 0

\* The trade test of run_simulation_step with the threshold itself let through.
signal_is_strong_inclusive(f) ==
    f.action # "HOLD" /\ f.confidence >= ConfidenceThreshold

\* The trade test of run_simulation_step: signal != "HOLD" and confidence > 0.3.
signal_is_strong(f) == f.action # "HOLD" /\ f.confidence > ConfidenceThreshold

\* run_simulation_step entered with the running flag ignored.
AdvBeginUnconditional ==
    /\ sim = "adv" /\ pc = "idle"
    /\ cycles < CycleLimit
    /\ pc' = "ticks" /\ idx' = 1
    /\ UNCHANGED <<sim, running, price, market_data, cash, positions, trades,
                   trade_count, total_value, daily_pnl, performance, call, events>>
    /\ UNCHANGED <<status, fusion, max_drawdown, total_pnl, cycles, horizon, calc>>

\* run_simulation_step, first statement: return at once when not running.
AdvBegin ==
    /\ sim = "adv" /\ pc = "idle"
    /\ cycles < CycleLimit
    /\ IF running THEN pc' = "ticks" /\ idx' = 1
                  ELSE UNCHANGED <<pc, idx>>
    /\ UNCHANGED <<sim, running, price, market_data, cash, positions, trades,
                   trade_count, total_value, daily_pnl, performance, call, events>>
    /\ UNCHANGED <<status, fusion, max_drawdown, total_pnl, cycles, horizon, calc>>

\* The first loop left after its first asset.
AdvTickFirstOnly ==
    /\ sim = "adv" /\ pc = "ticks"
    /\ \E new_price \in TickPrices(Assets[idx]) :
          /\ price' = [price EXCEPT ![Assets[idx]] = new_price]
          /\ market_data' = [market_data EXCEPT ![Assets[idx]] = MarketData(new_price)]
    /\ idx' = 1
    /\ pc' = "signals"
    /\ events' = Append(events, Tick(Assets[idx]))
    /\ UNCHANGED <<sim, running, cash, positions, trades, trade_count,
                   total_value, daily_pnl, performance, call>>
    /\ UNCHANGED <<status, fusion, max_drawdown, total_pnl, cycles, horizon, calc>>

\* run_simulation_step, first loop: one generate_market_data per asset.
AdvTick ==
    /\ sim = "adv" /\ pc = "ticks"
    /\ \E new_price \in TickPrices(Assets[idx]) :
          /\ price' = [price EXCEPT ![Assets[idx]] = new_price]
          /\ market_data' = [market_data EXCEPT ![Assets[idx]] = MarketData(new_price)]
    /\ idx' = IF idx = Len(Assets) THEN 1 ELSE idx + 1
    /\ pc' = IF idx = Len(Assets) THEN "signals" ELSE "ticks"
    /\ events' = Append(events, Tick(Assets[idx]))
    /\ UNCHANGED <<sim, running, cash, positions, trades, trade_count,
                   total_value, daily_pnl, performance, call>>
    /\ UNCHANGED <<status, fusion, max_drawdown, total_pnl, cycles, horizon, calc>>

\* run_simulation_step, second loop, one asset: the two signals, their
\* fusion, and the execute_trade call when the fused signal is strong enough.
AdvSignal ==
    /\ sim = "adv" /\ pc = "signals"
    /\ \E o \in SignalPairs(Assets[idx]) :
          LET s == Assets[idx]
              v == o[1]
              m == o[2]
              f == FuseSignals(v, m)
              q == (BaseSize * f.confidence) \div 1000
              p == IF f.action = "BUY" THEN market_data[s].ask ELSE market_data[s].bid
              r == execute_trade(s, f.action, q, p)
          IN /\ (horizon = "long" \/ f.action = "HOLD" \/ Len(trades) < MaxTrades)
             /\ IF signal_is_strong(f)
                THEN /\ cash' = r.cash
                     /\ positions' = r.positions
                     /\ trades' = r.trades
                     /\ call' = [attempted |-> TRUE, symbol |-> s, side |-> f.action,
                                 requested |-> q, quantity |-> r.quantity, price |-> p,
                                 ret |-> r.ret, confidence |-> f.confidence]
                     /\ events' = Append(events, TradeCall(s, r.ret))
                     /\ pc' = IF r.ret = "raised" THEN "raised"
                              ELSE IF idx = Len(Assets) THEN "ledger" ELSE "signals"
                ELSE /\ UNCHANGED <<cash, positions, trades, events>>
                     /\ call' = NoCall
                     /\ pc' = IF idx = Len(Assets) THEN "ledger" ELSE "signals"
    /\ idx' = idx + 1
    /\ UNCHANGED <<sim, running, price, market_data, trade_count, total_value,
                   daily_pnl, performance>>
    /\ UNCHANGED <<status, fusion, max_drawdown, total_pnl, cycles, horizon, calc>>

\* run_simulation_step, last statement: update_portfolio_value.
AdvLedger ==
    /\ sim = "adv" /\ pc = "ledger"
    /\ total_value' = AdvPortfolioValue
    /\ daily_pnl' = DailyPnl(AdvPortfolioValue, performance)
    /\ LET history == Append(performance, Snapshot(AdvPortfolioValue, cash))
       IN /\ performance' = history
          /\ max_drawdown' = IF metrics_raise(history) THEN max_drawdown
                              ELSE calculate_max_drawdown(history, max_drawdown)
          /\ pc' = IF metrics_raise(history) THEN "raised" ELSE "idle"
    /\ idx' = 1
    /\ cycles' = cycles + 1
    /\ call' = NoCall
    /\ events' = <<>>
    /\ UNCHANGED <<status, fusion, total_pnl, horizon, calc>>
    /\ UNCHANGED <<sim, running, price, market_data, cash, positions, trades,
                   trade_count>>

----------------------------------------------------------------------------
(* TradingSimulator (src/trading_dashboard.py) *)

\* The indicator values _generate_trading_signals reads: rsi, the vwap
\* deviation (price - vwap) / vwap in basis points, and the volume signal.
RsiLevels == {30, 70}
DeviationLevels == {-300, 300}
VolumeSignals == {-1, 0, 1}

\* The long run: no signal for BTC; for ETH a strong BUY in odd cycles and a
\* strong SELL in even ones, at average volume.
LongIndicators(s, n) ==
    IF s = "BTC" THEN <<30, 300, 0>>
    ELSE IF n % 2 = 1 THEN <<30, -300, 0>> ELSE <<70, 300, 0>>

\* The (rsi, vwap deviation, volume signal) the next cycle can read for s.
IndicatorDraws(s) ==
    IF horizon = "long" THEN {LongIndicators(s, cycles + 1)}
    ELSE RsiLevels \X DeviationLevels \X VolumeSignals

rsi_signal(rsi) ==
    IF rsi < 25 THEN 2
    ELSE IF rsi < 35 THEN 1
    ELSE IF rsi > 75 THEN -2
    ELSE IF rsi > 65 THEN -1
    ELSE 0

signal_strength(vwap_deviation, rs) ==
    IF vwap_deviation < -200 /\ rs >= 1 THEN 2
    ELSE IF vwap_deviation < -100 /\ rs >= 1 THEN 1
    ELSE IF vwap_deviation > 200 /\ rs <= -1 THEN -2
    ELSE IF vwap_deviation > 100 /\ rs <= -1 THEN -1
    ELSE 0

Abs(x) == IF x < 0 THEN -x ELSE x

\* quantity = int(1000 * |signal_strength| * (1 + volume_signal * 0.2)); the
\* SELL branch takes abs(volume_signal).
proposed_quantity(strength, volume_signal) ==
    (1000 * Abs(strength) * (10 + 2 * (IF strength > 0 THEN volume_signal
                                                      ELSE Abs(volume_signal)))) \div 10

\* The position-size clip of _execute_trade: when quantity * price exceeds
\* total_value * max_position_size, quantity = int(total_value *
\* max_position_size / price).  For whole quantity, price and limit,
\* quantity * price > limit exactly when quantity > limit \div price; at price
\* 0 the value is 0 and nothing is clipped.
clip_quantity(quantity, p, tv) ==
    LET limit == PctOf(tv, DashMaxPositionPct)
    IN IF p > 0 /\ quantity > limit \div p THEN limit \div p ELSE quantity

\* The daily-loss test of _execute_trade:
\* daily_pnl < -total_value * daily_loss_limit.
daily_loss_limit_reached(pnl, tv) == -pnl > PctOf(tv, DashDailyLossLimitPct)

\* _record_trade numbering a trade by the length of the log, as execute_trade
\* of the advanced simulator does.
record_tradeIdFromLength(tr, tc, s, side, q, p, fees) ==
    LET logged == Append(tr, [id |-> trade_id(Len(tr) + 1), symbol |-> s,
                              side |-> side, quantity |-> q, price |-> p,
                              fees |-> fees])
    IN IF Len(logged) > HistoryCap THEN Tail(logged) ELSE logged

\* _record_trade without the trim of the log to its last 200 trades.
record_tradeUncapped(tr, tc, s, side, q, p, fees) ==
    Append(tr, [id |-> trade_id(tc + 1), symbol |-> s, side |-> side,
                quantity |-> q, price |-> p, fees |-> fees])

\* _record_trade: trade_count += 1, append, keep the last 200 trades.
record_trade(tr, tc, s, side, q, p, fees) ==
    LET logged == Append(tr, [id |-> trade_id(tc + 1), symbol |-> s, side |-> side,
                              quantity |-> q, price |-> p, fees |-> fees])
    IN IF Len(logged) > HistoryCap THEN Tail(logged) ELSE logged

\* TradingSimulator._execute_trade.
dash_execute_trade(s, side, requested, p) ==
    LET q == clip_quantity(requested, p, total_value)
    IN IF daily_loss_limit_reached(daily_pnl, total_value)
       THEN Unchanged("rejected", q)
       ELSE LET trade_value == q * p
                fees == Fees(trade_value)
            IN IF side = "BUY"
               THEN IF SufficientCash(cash, trade_value, fees)
                    THEN Outcome("executed", q, cash - (trade_value + fees),
                                 [positions EXCEPT ![s] = @ + q],
                                 record_trade(trades, trade_count, s, side, q, p, fees),
                                 trade_count + 1)
                    ELSE Unchanged("rejected", q)
               ELSE IF SufficientPosition(positions[s], q)
                    THEN Outcome("executed", q, cash + (trade_value - fees),
                                 [positions EXCEPT ![s] = @ - q],
                                 record_trade(trades, trade_count, s, side, q, p, fees),
                                 trade_count + 1)
                    ELSE Unchanged("rejected", q)

\* _update_portfolio: cash + sum of quantity * assets[symbol]['price'] over
\* the non-zero positions.
DashPortfolioValue ==
    cash + SumOver([s \in Symbols |->
                      IF positions[s] # 0 THEN positions[s] * price[s] ELSE 0], Assets)

\* update_market_data, first statement: return at once when not running.
DashBegin ==
    /\ sim = "dash" /\ pc = "idle"
    /\ cycles < CycleLimit
    /\ IF running THEN pc' = "symbols" /\ idx' = 1
                  ELSE UNCHANGED <<pc, idx>>
    /\ UNCHANGED <<sim, running, price, market_data, cash, positions, trades,
                   trade_count, total_value, daily_pnl, performance, call, events>>
    /\ UNCHANGED <<status, fusion, max_drawdown, total_pnl, cycles, horizon, calc>>

\* update_market_data, one asset of its loop: the new price, then
\* _generate_trading_signals and the _execute_trade call it may make.
DashAsset ==
    /\ sim = "dash" /\ pc = "symbols"
    /\ \E new_price \in TickPrices(Assets[idx]), ind \in IndicatorDraws(Assets[idx]) :
          LET s == Assets[idx]
              rsi == ind[1]
              deviation == ind[2]
              volume_signal == ind[3]
              strength == signal_strength(deviation, rsi_signal(rsi))
              side == IF strength >= 1 THEN "BUY" ELSE "SELL"
              q == proposed_quantity(strength, volume_signal)
              r == dash_execute_trade(s, side, q, new_price)
          IN /\ (horizon = "long" \/ strength = 0 \/ trade_count < MaxTrades)
             /\ price' = [price EXCEPT ![s] = new_price]
             /\ IF strength # 0
                THEN /\ cash' = r.cash
                     /\ positions' = r.positions
                     /\ trades' = r.trades
                     /\ trade_count' = r.trade_count
                     /\ call' = [attempted |-> TRUE, symbol |-> s, side |-> side,
                                 requested |-> q, quantity |-> r.quantity,
                                 price |-> new_price, ret |-> r.ret]
                     /\ events' = events \o <<Tick(s), TradeCall(s, r.ret)>>
                     /\ pc' = IF r.ret = "raised" THEN "raised"
                              ELSE IF idx = Len(Assets) THEN "ledger" ELSE "symbols"
                ELSE /\ UNCHANGED <<cash, positions, trades, trade_count>>
                     /\ call' = NoCall
                     /\ events' = Append(events, Tick(s))
                     /\ pc' = IF idx = Len(Assets) THEN "ledger" ELSE "symbols"
    /\ idx' = idx + 1
    /\ UNCHANGED <<sim, running, market_data, total_value, daily_pnl, performance>>
    /\ UNCHANGED <<status, fusion, max_drawdown, total_pnl, cycles, horizon, calc>>

\* update_market_data, after the loop: _update_portfolio.
DashLedger ==
    /\ sim = "dash" /\ pc = "ledger"
    /\ total_value' = DashPortfolioValue
    /\ daily_pnl' = DailyPnl(DashPortfolioValue, performance)
    /\ LET appended == Append(performance, Snapshot(DashPortfolioValue, cash))
           history == IF Len(appended) > HistoryCap THEN Tail(appended) ELSE appended
       IN /\ performance' = history
          /\ max_drawdown' = IF metrics_raise(history) THEN max_drawdown
                              ELSE calculate_max_drawdown(history, max_drawdown)
          /\ pc' = IF metrics_raise(history) THEN "raised" ELSE "idle"
    /\ idx' = 1
    /\ cycles' = cycles + 1
    /\ call' = NoCall
    /\ events' = <<>>
    /\ UNCHANGED <<status, fusion, total_pnl, horizon, calc>>
    /\ UNCHANGED <<sim, running, price, market_data, cash, positions, trades,
                   trade_count>>

----------------------------------------------------------------------------
(* Both simulators *)

\* start() flipping the flag instead of setting it.
startToggling ==
    /\ running' = ~running
    /\ UNCHANGED <<sim, pc, idx, price, market_data, cash, positions, trades,
                   trade_count, total_value, daily_pnl, performance, call, events>>
    /\ UNCHANGED <<status, fusion, max_drawdown, total_pnl, cycles, horizon, calc>>

\* start(): self.running = True
start ==
    /\ running' = TRUE
    /\ UNCHANGED <<sim, pc, idx, price, market_data, cash, positions, trades,
                   trade_count, total_value, daily_pnl, performance, call, events>>
    /\ UNCHANGED <<status, fusion, max_drawdown, total_pnl, cycles, horizon, calc>>

\* stop() that also abandons the cycle in flight.
stopCancelling ==
    /\ running' = FALSE
    /\ pc' = "idle" /\ idx' = 1 /\ call' = NoCall /\ events' = <<>>
    /\ UNCHANGED <<sim, price, market_data, cash, positions, trades,
                   trade_count, total_value, daily_pnl, performance>>
    /\ UNCHANGED <<status, fusion, max_drawdown, total_pnl, cycles, horizon, calc>>

\* stop(): self.running = False
stop ==
    /\ running' = FALSE
    /\ UNCHANGED <<sim, pc, idx, price, market_data, cash, positions, trades,
                   trade_count, total_value, daily_pnl, performance, call, events>>
    /\ UNCHANGED <<status, fusion, max_drawdown, total_pnl, cycles, horizon, calc>>

\* get_status that refreshes the portfolio value before it answers.
get_statusRefreshing ==
    /\ ~status.present
    /\ total_value' = IF sim = "adv" THEN AdvPortfolioValue ELSE DashPortfolioValue
    /\ status' = [StatusOf EXCEPT !.total_value = total_value']
    /\ UNCHANGED <<sim, running, pc, idx, price, market_data, cash, positions,
                   trades, trade_count, daily_pnl, performance, call, events,
                   fusion, max_drawdown, total_pnl, cycles, horizon, calc>>

\* do_GET of /api/status, first half: get_status().  The server handles one
\* request at a time.
get_status ==
    /\ ~status.present
    /\ status' = StatusOf
    /\ UNCHANGED <<sim, running, pc, idx, price, market_data, cash, positions,
                   trades, trade_count, total_value, daily_pnl, performance, call,
                   events, fusion, max_drawdown, total_pnl, cycles, horizon, calc>>

\* do_GET of /api/status, second half: send_api_response(data).
send_api_response ==
    /\ status.present
    /\ status' = NoStatus
    /\ UNCHANGED <<sim, running, pc, idx, price, market_data, cash, positions,
                   trades, trade_count, total_value, daily_pnl, performance, call,
                   events, fusion, max_drawdown, total_pnl, cycles, horizon, calc>>

\* The fusion statement of run_simulation_step, applied to the pair at hand.
ApplyFusion ==
    /\ fusion.present /\ ~fusion.done
    /\ fusion' = [fusion EXCEPT !.done = TRUE,
                                !.fused = FuseSignals(fusion.vwap, fusion.mr)]
    /\ UNCHANGED <<sim, running, pc, idx, price, market_data, cash, positions,
                   trades, trade_count, total_value, daily_pnl, performance, call,
                   events, status, max_drawdown, total_pnl, cycles, horizon, calc>>

\* The state after __init__, of either class.
Init ==
    /\ sim \in {"adv", "dash"}
    /\ running = FALSE
    /\ pc = "idle" /\ idx = 1
    /\ price = [s \in Symbols |-> InitialPrice(sim, s)]
    /\ market_data = [s \in Symbols |-> NoData]
    /\ cash = Dollars(InitialCapital)
    /\ positions = [s \in Symbols |-> 0]
    /\ trades = <<>>
    /\ trade_count = 0
    /\ total_value = Dollars(InitialCapital)
    /\ daily_pnl = 0
    /\ performance = <<>>
    /\ call = NoCall
    /\ events = <<>>
    /\ status = NoStatus
    /\ fusion = NoFusion
    /\ max_drawdown = Ratio(0, 1)
    /\ total_pnl = 0
    /\ cycles = 0
    /\ horizon = "short"
    /\ calc = NoCalc

Next ==
    \/ start
    \/ stop
    \/ AdvBegin
    \/ AdvTick
    \/ AdvSignal
    \/ AdvLedger
    \/ DashBegin
    \/ DashAsset
    \/ DashLedger

Spec == Init /\ [][Next]_vars

\* Either simulator after __init__, before a short or a long run.
LongInit ==
    /\ sim \in {"adv", "dash"}
    /\ running = FALSE
    /\ pc = "idle" /\ idx = 1
    /\ price = [s \in Symbols |-> InitialPrice(sim, s)]
    /\ market_data = [s \in Symbols |-> NoData]
    /\ cash = Dollars(InitialCapital)
    /\ positions = [s \in Symbols |-> 0]
    /\ trades = <<>>
    /\ trade_count = 0
    /\ total_value = Dollars(InitialCapital)
    /\ daily_pnl = 0
    /\ performance = <<>>
    /\ call = NoCall
    /\ events = <<>>
    /\ status = NoStatus
    /\ fusion = NoFusion
    /\ max_drawdown = Ratio(0, 1)
    /\ total_pnl = 0
    /\ cycles = 0
    /\ horizon \in {"short", "long"}
    /\ calc = NoCalc

LongSpec == LongInit /\ [][Next]_vars

\* The simulator behind its HTTP server: status requests arrive at any point
\* of a cycle.  A reply is sent before the simulator's next step: what a reply
\* holds is the state at one point of the run either way.
HttpNext ==
    \/ ~status.present /\ Next
    \/ get_status
    \/ send_api_response

HttpSpec == Init /\ [][HttpNext]_vars

\* The strategy outputs the fusion is applied to: every action with
\* confidences 0, 0.2, ... 1.
FusionConfidences == {0, 200, 400, 600, 800, 1000}
FusionInputs ==
    {Signal(a, c) : a \in {"BUY", "SELL", "HOLD"}, c \in FusionConfidences}

\* A fresh advanced simulator whose two strategies have just returned.
FusionInit ==
    /\ sim = "adv"
    /\ running = FALSE
    /\ pc = "idle" /\ idx = 1
    /\ price = [s \in Symbols |-> InitialPrice(sim, s)]
    /\ market_data = [s \in Symbols |-> NoData]
    /\ cash = Dollars(InitialCapital)
    /\ positions = [s \in Symbols |-> 0]
    /\ trades = <<>>
    /\ trade_count = 0
    /\ total_value = Dollars(InitialCapital)
    /\ daily_pnl = 0
    /\ performance = <<>>
    /\ call = NoCall
    /\ events = <<>>
    /\ status = NoStatus
    /\ fusion \in {[present |-> TRUE, vwap |-> v, mr |-> m, done |-> FALSE,
                     fused |-> Signal("HOLD", 0)] : v, m \in FusionInputs}
    /\ max_drawdown = Ratio(0, 1)
    /\ total_pnl = 0
    /\ cycles = 0
    /\ horizon = "short"
    /\ calc = NoCalc

FusionSpec == FusionInit /\ [][ApplyFusion]_vars

----------------------------------------------------------------------------
(* The indicator and strategy functions, applied on their own.  Prices and  *)
(* volumes are whole numbers; every quotient the code forms is kept as an    *)
(* exact fraction in lowest terms, so that an equality the code would get    *)
(* only up to floating-point rounding is an equality here.                   *)

FromInt(n) == Ratio(n, 1)

QAdd(x, y) ==
    LET g == GCD(x.den, y.den)
        l == (x.den \div g) * y.den
    IN Ratio(x.num * (l \div x.den) + y.num * (l \div y.den), l)

QNeg(x) == [num |-> -x.num, den |-> x.den]

QSub(x, y) == QAdd(x, QNeg(y))

QMul(x, y) ==
    LET g1 == GCD(Abs(x.num), y.den)
        g2 == GCD(Abs(y.num), x.den)
    IN Ratio((x.num \div g1) * (y.num \div g2), (x.den \div g2) * (y.den \div g1))

\* x / y, for y different from 0.
QDiv(x, y) ==
    IF y.num > 0 THEN QMul(x, [num |-> y.den, den |-> y.num])
    ELSE QMul(x, [num |-> -y.den, den |-> -y.num])

QAbs(x) == [num |-> Abs(x.num), den |-> x.den]

QLess(x, y) == QSub(x, y).num < 0

QLeq(x, y) == QSub(x, y).num <= 0

QMin(x, y) == IF QLess(y, x) THEN y ELSE x

\* sum(...) over a list of whole numbers and over a list of fractions.
RECURSIVE SeqSum(_)
SeqSum(q) == IF q = <<>> THEN 0 ELSE Head(q) + SeqSum(Tail(q))

\* (The sum of the tail is worked out before it is added to the head.)
RECURSIVE QSum(_)
QSum(q) ==
    IF q = <<>> THEN FromInt(0)
    ELSE CHOOSE total \in {QAdd(Head(q), rest) : rest \in {QSum(Tail(q))}} : TRUE

\* q[-n:] of Python: the last n entries, all of them if there are fewer.
LastN(q, n) == IF Len(q) <= n THEN q ELSE SubSeq(q, Len(q) - n + 1, Len(q))

\* AdvancedVWAPStrategy.calculate_vwap with the dashboard's fallback (the
\* last price) when nothing was traded.
calculate_vwapLastPrice(prices, volumes) ==
    IF prices = <<>> \/ volumes = <<>> THEN FromInt(0)
    ELSE LET n == IF Len(prices) < Len(volumes) THEN Len(prices) ELSE Len(volumes)
             total_pv == SeqSum([i \in 1..n |-> prices[i] * volumes[i]])
             total_volume == SeqSum(volumes)
         IN IF total_volume > 0 THEN Ratio(total_pv, total_volume)
            ELSE FromInt(prices[Len(prices)])

\* AdvancedVWAPStrategy.calculate_vwap(prices, volumes).
calculate_vwap(prices, volumes) ==
    IF prices = <<>> \/ volumes = <<>> THEN FromInt(0)
    ELSE LET n == IF Len(prices) < Len(volumes) THEN Len(prices) ELSE Len(volumes)
             total_pv == SeqSum([i \in 1..n |-> prices[i] * volumes[i]])
             total_volume == SeqSum(volumes)
         IN IF total_volume > 0 THEN Ratio(total_pv, total_volume)
            ELSE FromInt(0)

\* The default of calculate_rsi's and _calculate_rsi's parameter period.
RsiPeriod == 14

\* The loops of calculate_rsi and _calculate_rsi: one gain and one loss per
\* change of price, the other of the two being 0.
rsi_gains(prices) ==
    [i \in 1..(Len(prices) - 1) |->
        LET change == prices[i + 1] - prices[i]
        IN IF change > 0 THEN change ELSE 0]

rsi_losses(prices) ==
    [i \in 1..(Len(prices) - 1) |->
        LET change == prices[i + 1] - prices[i]
        IN IF change > 0 THEN 0 ELSE Abs(change)]

\* The last lines of both functions with gain and loss exchanged.
rsi_valueInverted(avg_gain, avg_loss) ==
    IF avg_gain.num = 0 THEN FromInt(100)
    ELSE LET rs == QDiv(avg_loss, avg_gain)
         IN QSub(FromInt(100), QDiv(FromInt(100), QAdd(FromInt(1), rs)))

\* The last lines of both functions: 100 without losses, else
\* 100 - 100 / (1 + avg_gain / avg_loss).
rsi_value(avg_gain, avg_loss) ==
    IF avg_loss.num = 0 THEN FromInt(100)
    ELSE LET rs == QDiv(avg_gain, avg_loss)
         IN QSub(FromInt(100), QDiv(FromInt(100), QAdd(FromInt(1), rs)))

\* MeanReversionStrategy.calculate_rsi(prices, period).
calculate_rsi(prices, period) ==
    IF Len(prices) < period + 1 THEN FromInt(50)
    ELSE LET avg_gain == Ratio(SeqSum(LastN(rsi_gains(prices), period)), period)
             avg_loss == Ratio(SeqSum(LastN(rsi_losses(prices), period)), period)
         IN rsi_value(avg_gain, avg_loss)

\* TradingSimulator._calculate_rsi of the dashboard(prices, period).
dashboard_calculate_rsi(prices, period) ==
    IF Len(prices) < period + 1 THEN FromInt(50)
    ELSE LET avg_gain == Ratio(SeqSum(LastN(rsi_gains(prices), period)), period)
             avg_loss == Ratio(SeqSum(LastN(rsi_losses(prices), period)), period)
         IN rsi_value(avg_gain, avg_loss)

\* floor(n / d * 10^k) for n >= 0 and d > 0, one decimal digit at a time.
RECURSIVE Pow10(_)
Pow10(k) == IF k = 0 THEN 1 ELSE 10 * Pow10(k - 1)

RECURSIVE DecimalFloor(_, _, _)
DecimalFloor(n, d, k) ==
    IF k = 0 THEN n \div d
    ELSE (n \div d) * Pow10(k) + DecimalFloor((n % d) * 10, d, k - 1)

\* The largest r in lo..hi with r * r <= n.
RECURSIVE SqrtBetween(_, _, _)
SqrtBetween(n, lo, hi) ==
    IF lo = hi THEN lo
    ELSE LET mid == (lo + hi + 1) \div 2
         IN IF mid * mid <= n THEN SqrtBetween(n, mid, hi)
            ELSE SqrtBetween(n, lo, mid - 1)

\* math.sqrt, and the square root inside statistics.stdev: the root of a
\* fraction x >= 0, rounded down to a whole number of thousandths (the code
\* rounds to the nearest double instead).
sqrt(x) == Ratio(SqrtBetween(DecimalFloor(x.num, x.den, 6), 0, 46340), 1000)

\* MeanReversionStrategy.__init__: period and std_dev.
BollingerPeriod == 20
BollingerStdDev == 2

\* calculate_bollinger_bands with the width subtracted above and added below.
calculate_bollinger_bandsSwapped(prices) ==
    IF Len(prices) < BollingerPeriod
    THEN [upper |-> FromInt(0), middle |-> FromInt(0), lower |-> FromInt(0)]
    ELSE LET recent_prices == LastN(prices, BollingerPeriod)
             sma == Ratio(SeqSum(recent_prices), Len(recent_prices))
             variance ==
                 QDiv(QSum([i \in 1..Len(recent_prices) |->
                               LET d == QSub(FromInt(recent_prices[i]), sma)
                               IN QMul(d, d)]),
                      FromInt(Len(recent_prices)))
             std == sqrt(variance)
         IN [upper |-> QSub(sma, QMul(FromInt(BollingerStdDev), std)),
             middle |-> sma,
             lower |-> QAdd(sma, QMul(FromInt(BollingerStdDev), std))]

\* MeanReversionStrategy.calculate_bollinger_bands with bands one standard
\* deviation wide.
calculate_bollinger_bandsNarrow(prices) ==
    IF Len(prices) < BollingerPeriod
    THEN [upper |-> FromInt(0), middle |-> FromInt(0), lower |-> FromInt(0)]
    ELSE LET recent_prices == LastN(prices, BollingerPeriod)
             sma == Ratio(SeqSum(recent_prices), Len(recent_prices))
             variance ==
                 QDiv(QSum([i \in 1..Len(recent_prices) |->
                               LET d == QSub(FromInt(recent_prices[i]), sma)
                               IN QMul(d, d)]),
                      FromInt(Len(recent_prices)))
             std == sqrt(variance)
         IN [upper |-> QAdd(sma, std), middle |-> sma, lower |-> QSub(sma, std)]

\* MeanReversionStrategy.calculate_bollinger_bands(prices).
calculate_bollinger_bands(prices) ==
    IF Len(prices) < BollingerPeriod
    THEN [upper |-> FromInt(0), middle |-> FromInt(0), lower |-> FromInt(0)]
    ELSE LET recent_prices == LastN(prices, BollingerPeriod)
             sma == Ratio(SeqSum(recent_prices), Len(recent_prices))
             variance ==
                 QDiv(QSum([i \in 1..Len(recent_prices) |->
                               LET d == QSub(FromInt(recent_prices[i]), sma)
                               IN QMul(d, d)]),
                      FromInt(Len(recent_prices)))
             std == sqrt(variance)
         IN [upper |-> QAdd(sma, QMul(FromInt(BollingerStdDev), std)),
             middle |-> sma,
             lower |-> QSub(sma, QMul(FromInt(BollingerStdDev), std))]

\* MeanReversionStrategy.generate_signal, as a function of the prices fed to
\* the strategy so far, the current one last: the kept history is the last
\* 2 * period of them.
mr_generate_signal(fed) ==
    LET current_price == FromInt(fed[Len(fed)])
        price_history == LastN(fed, BollingerPeriod * 2)
    IN IF Len(price_history) < BollingerPeriod THEN Signal("HOLD", FromInt(0))
       ELSE LET bands == calculate_bollinger_bands(price_history)
                upper == bands.upper
                lower == bands.lower
                rsi == calculate_rsi(price_history, RsiPeriod)
            IN IF QLess(current_price, lower) /\ QLess(rsi, FromInt(30))
               THEN Signal("BUY",
                           QMin(FromInt(1),
                                QMul(QDiv(QSub(lower, current_price), lower),
                                     FromInt(2))))
               ELSE IF QLess(upper, current_price) /\ QLess(FromInt(70), rsi)
               THEN Signal("SELL",
                           QMin(FromInt(1),
                                QMul(QDiv(QSub(current_price, upper), upper),
                                     FromInt(2))))
               ELSE Signal("HOLD", FromInt(0))

\* AdvancedVWAPStrategy.__init__: lookback_period.
LookbackPeriod == 20

\* The rise per step from the first price to the last instead of the
\* regression slope.
calculate_momentumEndpoints(prices) ==
    IF Len(prices) < 5 THEN FromInt(0)
    ELSE Ratio(prices[Len(prices)] - prices[1], Len(prices) - 1)

\* AdvancedVWAPStrategy.calculate_momentum(prices): the slope of the
\* regression line through (0, prices[0]), (1, prices[1]), ...
calculate_momentum(prices) ==
    IF Len(prices) < 5 THEN FromInt(0)
    ELSE LET n == Len(prices)
             sum_x == SeqSum([i \in 1..n |-> i - 1])
             sum_y == SeqSum(prices)
             sum_xy == SeqSum([i \in 1..n |-> (i - 1) * prices[i]])
             sum_x2 == SeqSum([i \in 1..n |-> (i - 1) * (i - 1)])
         IN Ratio(n * sum_xy - sum_x * sum_y, n * sum_x2 - sum_x * sum_x)

\* statistics.stdev(data), for two values or more: the root of the sum of
\* the squared distances to the mean over len(data) - 1.
stdev(data) ==
    LET n == Len(data)
        mean == QDiv(QSum(data), FromInt(n))
        ss == QSum([i \in 1..n |-> LET d == QSub(data[i], mean) IN QMul(d, d)])
    IN sqrt(QDiv(ss, FromInt(n - 1)))

\* An exception that leaves the call in place of a return value.
ZeroDivisionError == [raised |-> "ZeroDivisionError"]

\* AdvancedVWAPStrategy.calculate_volatility(prices) divides each change by
\* the price before it, whatever that price is.
calculate_volatility_raises(prices) ==
    Len(prices) >= 2 /\ \E i \in 1..(Len(prices) - 1) : prices[i] = 0

\* AdvancedVWAPStrategy.calculate_volatility(prices), where it returns.
calculate_volatility(prices) ==
    IF Len(prices) < 2 THEN FromInt(0)
    ELSE LET returns == [i \in 1..(Len(prices) - 1) |->
                            Ratio(prices[i + 1] - prices[i], prices[i])]
         IN IF Len(returns) > 1 THEN stdev(returns) ELSE FromInt(0)

\* AdvancedVWAPStrategy.generate_signal, as a function of the prices and
\* volumes fed to the strategy so far, the current ones last: the kept
\* histories are the last lookback_period of them.  0.4, 0.2 and 0.02 are
\* the fractions 2/5, 1/5 and 1/50.
vwap_generate_signal(fed_prices, fed_volumes) ==
    LET current_price == FromInt(fed_prices[Len(fed_prices)])
        price_history == LastN(fed_prices, LookbackPeriod)
        volume_history == LastN(fed_volumes, LookbackPeriod)
    IN IF Len(price_history) < 5 THEN Signal("HOLD", FromInt(0))
       ELSE IF calculate_volatility_raises(price_history) THEN ZeroDivisionError
       ELSE LET vwap == calculate_vwap(price_history, volume_history)
                momentum == calculate_momentum(price_history)
                volatility == calculate_volatility(price_history)
                price_deviation ==
                    IF vwap.num > 0 THEN QDiv(QSub(current_price, vwap), vwap)
                    ELSE FromInt(0)
                momentum_factor ==
                    IF current_price.num > 0 THEN QDiv(momentum, current_price)
                    ELSE FromInt(0)
                vol_factor ==
                    IF volatility.num > 0
                    THEN QDiv(FromInt(1),
                              QAdd(FromInt(1), QMul(volatility, FromInt(100))))
                    ELSE FromInt(1)
                strength ==
                    QAdd(QAdd(QMul(price_deviation, Ratio(2, 5)),
                              QMul(momentum_factor, Ratio(2, 5))),
                         QMul(vol_factor, Ratio(1, 5)))
            IN IF QLess(strength, Ratio(-1, 50))
               THEN Signal("BUY", QAbs(strength))
               ELSE IF QLess(Ratio(1, 50), strength)
               THEN Signal("SELL", QAbs(strength))
               ELSE Signal("HOLD", QAbs(strength))

\* The arguments the functions are applied to.  Volumes run over
\* 0..MaxVolume, the price lists of calculate_vwap have up to MaxVwapLen
\* entries.
MaxVolume == 2
MaxVwapLen == 3

\* A price list of n entries that starts at first, moves by a per entry and,
\* from entry k on, by b more per entry: ramps, flat lists, lists with one
\* bend and lists with one jump at the end.
Kinked(first, n, a, b, k) ==
    [i \in 1..n |-> first + a * (i - 1) + (IF i >= k THEN b * (i - k + 1) ELSE 0)]

AllPositive(q) == \A i \in 1..Len(q) : q[i] > 0

Repeated(n, x) == [i \in 1..n |-> x]

Call(fn, prices, volumes) ==
    [present |-> TRUE, fn |-> fn, prices |-> prices, volumes |-> volumes,
     done |-> FALSE, result |-> FromInt(0)]

\* calculate_vwap: a constant price under every list of volumes, all zero
\* included, a rising price, the lists of the unit test and no data at all.
VwapCalls ==
    UNION {{Call("calculate_vwap", prices, volumes) :
               prices \in {Repeated(n, 7), Repeated(n, 100), Kinked(10, n, 1, 0, n)},
               volumes \in [1..n -> 0..MaxVolume]} : n \in 1..MaxVwapLen}
    \cup {Call("calculate_vwap", Repeated(5, 100), Repeated(5, 1)),
          Call("calculate_vwap", <<>>, <<>>)}

\* Both RSI functions: lists shorter than, as long as and longer than
\* period + 1; rising, falling, flat and bent ones.
RsiPrices ==
    {Kinked(100, n, a, b, k) :
        n \in {0, 3, RsiPeriod, RsiPeriod + 1, RsiPeriod + 2, 20},
        a \in -2..2, b \in {-3, 0, 3}, k \in {5, RsiPeriod + 1}}

RsiCalls ==
    {Call(fn, prices, <<>>) :
        fn \in {"calculate_rsi", "_calculate_rsi"}, prices \in RsiPrices}

\* The mean-reversion functions: lists around period and around 2 * period
\* entries, drifting slowly, with or without a jump at the end.
MrPrices ==
    {q \in {Kinked(50, n, a, b, n) :
               n \in {1, BollingerPeriod - 1, BollingerPeriod, BollingerPeriod + 1,
                      2 * BollingerPeriod + 1},
               a \in -1..1, b \in {-40, -3, 0, 3, 40}} : AllPositive(q)}

BollingerCalls ==
    {Call("calculate_bollinger_bands", prices, <<>>) : prices \in MrPrices \cup {<<>>}}

MrSignalCalls ==
    {Call("MeanReversionStrategy.generate_signal", prices, <<>>) : prices \in MrPrices}

\* The VWAP strategy: flat prices with or without a jump at the end, under
\* equal volumes and under a last volume of its own.
VwapSignalCalls ==
    UNION {{Call("AdvancedVWAPStrategy.generate_signal", prices, volumes) :
               prices \in {q \in {Kinked(s, n, 0, b, n) :
                                     s \in {1, 10}, b \in {-5, -1, 0, 1, 9}} :
                              AllPositive(q)},
               volumes \in {Repeated(n, v) : v \in 1..MaxVolume}
                           \cup {[i \in 1..n |-> IF i = n THEN v ELSE 1] :
                                    v \in 1..MaxVolume}} :
           n \in {4, 5, 6, LookbackPeriod + 1}}

\* RiskManager.check_daily_loss_limit(new_pnl), amounts in cents: -max_daily_loss,
\* a number of dollars in the code (-0.05 by default), is -5 cents for a
\* max_daily_loss of 5 percent.
check_daily_loss_limit(new_pnl, max_daily_loss) == new_pnl >= -max_daily_loss

\* check_daily_loss_limit on a RiskManager(max_daily_loss = 0.03 or 0.05):
\* gains, no change, losses of a few cents and losses of 20,000, 30,000 and
\* 40,000 dollars, on a portfolio worth total_value cents.
RiskCalls ==
    {[present |-> TRUE, fn |-> "check_daily_loss_limit", prices |-> <<>>,
      volumes |-> <<>>, done |-> FALSE, result |-> FromInt(0),
      new_pnl |-> pnl, total_value |-> tv, max_daily_loss |-> pct] :
        pnl \in {2000000, 0, -2, -3, -4, -5, -6, -2000000, -3000000, -4000000},
        tv \in {50000000, 100000000},
        pct \in {DashDailyLossLimitPct, AdvMaxDailyLossPct}}

\* The price of a tick, in ten-thousandths of a dollar, the Gaussian draw
\* price_change in percent.
\* generate_market_data: new_price = asset.base_price * (1 + price_change).
generate_market_data_price(asset_type, base_price, price_change) ==
    (base_price * (100 + price_change)) \div 100

\* update_market_data: new_price = asset['price'] * (1 + price_change), then
\* max(new_price, 1.0) for a stock and max(new_price, 0.01) for a crypto asset.
update_market_data_price(asset_type, old_price, price_change) ==
    LET new_price == (old_price * (100 + price_change)) \div 100
    IN IF asset_type = "stock" THEN (IF new_price > 10000 THEN new_price ELSE 10000)
       ELSE IF asset_type = "crypto" THEN (IF new_price > 100 THEN new_price ELSE 100)
       ELSE new_price

\* The draws random.gauss can return are within 8.6 standard deviations:
\* 3 percent for the advanced simulator (volatility * 0.01 is at most 0.007),
\* and for the dashboard 117 percent for crypto assets, 47 for stocks and 14
\* for the other classes (base volatility x 1.3 x sector x 2).
DashPriceChanges(asset_type) ==
    {x \in {-117, -100, -47, -14, 0, 14, 47, 117} :
        \/ asset_type = "crypto"
        \/ asset_type = "stock" /\ x >= -47 /\ x <= 47
        \/ x >= -14 /\ x <= 14}

TickCalls ==
    {[present |-> TRUE, fn |-> "generate_market_data", prices |-> <<>>,
      volumes |-> <<>>, done |-> FALSE, result |-> FromInt(0),
      asset_type |-> t, old_price |-> p, price_change |-> c] :
        t \in {"stock", "crypto", "forex", "commodity"},
        p \in {10200, 10800, 1500000}, c \in {-3, 0, 3}}
    \cup
    UNION {{[present |-> TRUE, fn |-> "update_market_data", prices |-> <<>>,
             volumes |-> <<>>, done |-> FALSE, result |-> FromInt(0),
             asset_type |-> t, old_price |-> p, price_change |-> c] :
               p \in {100, 10200, 10800, 1500000}, c \in DashPriceChanges(t)} :
           t \in {"stock", "crypto", "forex", "commodity", "etf"}}

IndicatorCalls ==
    VwapCalls \cup RsiCalls \cup BollingerCalls \cup MrSignalCalls \cup VwapSignalCalls
    \cup RiskCalls \cup TickCalls

\* One function applied to the arguments at hand.
Applied(fn, result) ==
    /\ calc.present /\ ~calc.done /\ calc.fn = fn
    /\ calc' = [calc EXCEPT !.done = TRUE, !.result = result]
    /\ UNCHANGED <<sim, running, pc, idx, price, market_data, cash, positions,
                   trades, trade_count, total_value, daily_pnl, performance, call,
                   events, status, fusion, max_drawdown, total_pnl, cycles, horizon>>

ApplyVwap == Applied("calculate_vwap", calculate_vwap(calc.prices, calc.volumes))

ApplyRsi == Applied("calculate_rsi", calculate_rsi(calc.prices, RsiPeriod))

ApplyDashboardRsi ==
    Applied("_calculate_rsi", dashboard_calculate_rsi(calc.prices, RsiPeriod))

ApplyBollinger ==
    Applied("calculate_bollinger_bands", calculate_bollinger_bands(calc.prices))

ApplyMrSignal ==
    Applied("MeanReversionStrategy.generate_signal", mr_generate_signal(calc.prices))

ApplyVwapSignal ==
    Applied("AdvancedVWAPStrategy.generate_signal",
            vwap_generate_signal(calc.prices, calc.volumes))

ApplyDailyLossLimit ==
    /\ calc.present /\ calc.fn = "check_daily_loss_limit"
    /\ Applied("check_daily_loss_limit",
               [passes |-> check_daily_loss_limit(calc.new_pnl, calc.max_daily_loss)])

ApplyAdvTickPrice ==
    /\ calc.present /\ calc.fn = "generate_market_data"
    /\ Applied("generate_market_data",
               [price |-> generate_market_data_price(calc.asset_type, calc.old_price,
                                                     calc.price_change)])

ApplyDashTickPrice ==
    /\ calc.present /\ calc.fn = "update_market_data"
    /\ Applied("update_market_data",
               [price |-> update_market_data_price(calc.asset_type, calc.old_price,
                                                   calc.price_change)])

IndicatorNext ==
    \/ ApplyDailyLossLimit
    \/ ApplyAdvTickPrice
    \/ ApplyDashTickPrice
    \/ ApplyVwap
    \/ ApplyRsi
    \/ ApplyDashboardRsi
    \/ ApplyBollinger
    \/ ApplyMrSignal
    \/ ApplyVwapSignal

IndicatorInit ==
    /\ calc \in IndicatorCalls
    /\ sim = IF calc.fn = "_calculate_rsi" THEN "dash" ELSE "adv"
    /\ running = FALSE
    /\ pc = "idle" /\ idx = 1
    /\ price = [s \in Symbols |-> InitialPrice(sim, s)]
    /\ market_data = [s \in Symbols |-> NoData]
    /\ cash = Dollars(InitialCapital)
    /\ positions = [s \in Symbols |-> 0]
    /\ trades = <<>>
    /\ trade_count = 0
    /\ total_value = Dollars(InitialCapital)
    /\ daily_pnl = 0
    /\ performance = <<>>
    /\ call = NoCall
    /\ events = <<>>
    /\ status = NoStatus
    /\ fusion = NoFusion
    /\ max_drawdown = Ratio(0, 1)
    /\ total_pnl = 0
    /\ cycles = 0
    /\ horizon = "short"

IndicatorSpec == IndicatorInit /\ [][IndicatorNext]_vars

----------------------------------------------------------------------------
(* One strategy object fed one price after the other. *)

\* The histories after a strategy without limit on them.
keep_recentUnbounded(history, x, limit) == Append(history, x)

\* The histories of a strategy that starts afresh when they are full.
keep_recentCleared(history, x, limit) ==
    IF Len(history) + 1 > limit THEN <<x>> ELSE Append(history, x)

\* generate_signal of both strategies: the value is appended and the oldest
\* one is dropped once the history is longer than the limit.
keep_recent(history, x, limit) ==
    LET appended == Append(history, x)
    IN IF Len(appended) > limit THEN Tail(appended) ELSE appended

\* A price list of n entries on the line first + a * i, but for entry k,
\* which is x.
Spiked(first, n, a, x, k) ==
    [i \in 1..n |-> IF i = k THEN x ELSE first + a * (i - 1)]

Strategy(class, prices, volumes) ==
    [present |-> TRUE, fn |-> class, prices |-> prices, volumes |-> volumes,
     calls |-> 0, price_history |-> <<>>, volume_history |-> <<>>,
     done |-> FALSE, result |-> FromInt(0)]

\* The VWAP strategy: two calls more than its histories hold, flat prices
\* with one other price (0 included) early or late, under equal volumes
\* (0 included).
VwapStrategies ==
    {Strategy("AdvancedVWAPStrategy", prices, volumes) :
        prices \in {Spiked(10, LookbackPeriod + 2, 0, x, k) :
                       x \in {0, 5, 10, 20}, k \in {2, 5, LookbackPeriod + 2}},
        volumes \in {Repeated(LookbackPeriod + 2, v) : v \in 0..MaxVolume}}

\* The mean-reversion strategy: two calls more than its history holds,
\* ramps and flat prices with one other price (0 included).
MrStrategies ==
    {Strategy("MeanReversionStrategy", prices, <<>>) :
        prices \in {Spiked(50, 2 * BollingerPeriod + 2, a, x, k) :
                       a \in -1..1, x \in {0, 50, 90},
                       k \in {BollingerPeriod, BollingerPeriod + 1,
                              2 * BollingerPeriod + 1}}}

\* AdvancedVWAPStrategy.generate_signal(current_price, current_volume) on
\* the next price and volume.
VwapGenerateSignal ==
    /\ calc.present /\ calc.fn = "AdvancedVWAPStrategy"
    /\ calc.calls < Len(calc.prices)
    /\ LET current_price == calc.prices[calc.calls + 1]
           current_volume == calc.volumes[calc.calls + 1]
           price_history == keep_recent(calc.price_history, current_price,
                                        LookbackPeriod)
           volume_history == IF Len(calc.price_history) + 1 > LookbackPeriod
                             THEN Tail(Append(calc.volume_history, current_volume))
                             ELSE Append(calc.volume_history, current_volume)
       IN calc' = [calc EXCEPT !.calls = @ + 1,
                               !.price_history = price_history,
                               !.volume_history = volume_history,
                               !.done = TRUE,
                               !.result = vwap_generate_signal(price_history,
                                                               volume_history)]
    /\ UNCHANGED <<sim, running, pc, idx, price, market_data, cash, positions,
                   trades, trade_count, total_value, daily_pnl, performance, call,
                   events, status, fusion, max_drawdown, total_pnl, cycles, horizon>>

\* MeanReversionStrategy.generate_signal(current_price) on the next price.
MrGenerateSignal ==
    /\ calc.present /\ calc.fn = "MeanReversionStrategy"
    /\ calc.calls < Len(calc.prices)
    /\ LET current_price == calc.prices[calc.calls + 1]
           price_history == keep_recent(calc.price_history, current_price,
                                        BollingerPeriod * 2)
       IN calc' = [calc EXCEPT !.calls = @ + 1,
                               !.price_history = price_history,
                               !.done = TRUE,
                               !.result = mr_generate_signal(price_history)]
    /\ UNCHANGED <<sim, running, pc, idx, price, market_data, cash, positions,
                   trades, trade_count, total_value, daily_pnl, performance, call,
                   events, status, fusion, max_drawdown, total_pnl, cycles, horizon>>

StrategyNext ==
    \/ VwapGenerateSignal
    \/ MrGenerateSignal

StrategyInit ==
    /\ calc \in VwapStrategies \cup MrStrategies
    /\ sim = "adv"
    /\ running = FALSE
    /\ pc = "idle" /\ idx = 1
    /\ price = [s \in Symbols |-> InitialPrice(sim, s)]
    /\ market_data = [s \in Symbols |-> NoData]
    /\ cash = Dollars(InitialCapital)
    /\ positions = [s \in Symbols |-> 0]
    /\ trades = <<>>
    /\ trade_count = 0
    /\ total_value = Dollars(InitialCapital)
    /\ daily_pnl = 0
    /\ performance = <<>>
    /\ call = NoCall
    /\ events = <<>>
    /\ status = NoStatus
    /\ fusion = NoFusion
    /\ max_drawdown = Ratio(0, 1)
    /\ total_pnl = 0
    /\ cycles = 0
    /\ horizon = "short"

StrategySpec == StrategyInit /\ [][StrategyNext]_vars

----------------------------------------------------------------------------
(* Sanity of the model's arithmetic. *)

\* Every commission and every half spread of the model is a whole number of
\* units, so the integer divisions above lose nothing.
ExactArithmetic ==
    /\ call.attempted => (call.quantity * call.price) % 1000 = 0
    /\ \A s \in Symbols : price[s] % 200 = 0
    /\ sim = "adv" => (cash % 2 = 0 /\ total_value % 2 = 0 /\ daily_pnl % 2 = 0)

TypeOK ==
    /\ sim \in {"adv", "dash"}
    /\ running \in BOOLEAN
    /\ pc \in {"idle", "ticks", "signals", "symbols", "ledger", "raised"}
    /\ idx \in 1..(Len(Assets) + 1)
    /\ cash \in Int /\ total_value \in Int /\ daily_pnl \in Int
    /\ trade_count \in Nat
    /\ \A s \in Symbols : positions[s] \in Int /\ price[s] \in Nat
    /\ \A i \in 1..Len(events) :
          /\ events[i].kind \in {"tick", "trade"}
          /\ events[i].symbol \in Symbols
          /\ events[i].executed \in BOOLEAN
    /\ status.present \in BOOLEAN
    /\ fusion.present \in BOOLEAN
    /\ max_drawdown.num \in Int /\ max_drawdown.den \in Nat \ {0}
    /\ total_pnl \in Int
    /\ cycles \in 0..CycleLimit
    /\ horizon \in {"short", "long"}
    /\ calc.present \in BOOLEAN

----------------------------------------------------------------------------
(* Vocabulary of the properties, written from the specification's wording *)
(* and not from the operators above.                                       *)

\* A step in which execute_trade / _execute_trade was called.
TradeAttempt == idx' # idx /\ call'.attempted
BuyAttempt == TradeAttempt /\ call'.side = "BUY"
SellAttempt == TradeAttempt /\ call'.side = "SELL"

PortfolioUnchanged == UNCHANGED <<cash, positions, trades, trade_count>>

\* max_position_size and max_daily_loss of the simulator at hand, in percent.
MaxPositionPct == IF sim = "adv" THEN 10 ELSE 15
MaxDailyLossPct == IF sim = "adv" THEN 5 ELSE 3

\* floor(pct % of x), for x >= 0.
Share(pct, x) == (x \div 100) * pct + ((x % 100) * pct) \div 100

\* max_position_size x total_value, rounded down to a whole unit.
PositionLimit == Share(MaxPositionPct, total_value)

\* daily_pnl < -max_daily_loss x total_value
DailyLossBreached == -daily_pnl > Share(MaxDailyLossPct, total_value)

\* The 0.1% fee on quantity q at price p.
FeeOf(q, p) == (q * p) \div 1000

\* The last record of a trade log.
Last(log) == log[Len(log)]

----------------------------------------------------------------------------
(* C1 *)

\* C1: in every reachable state, after any sequence of cycles and trade
\* executions of either simulator, portfolio cash is >= 0.
C1_CashNeverNegative == cash >= 0

\* A BUY that passed every risk gate was turned down because the cash at hand
\* does not cover trade value plus fee.
C1_Witness ==
    /\ call.attempted /\ call.side = "BUY" /\ call.ret = "rejected"
    /\ call.quantity * call.price <= PositionLimit
    /\ ~DailyLossBreached
    /\ cash < call.quantity * call.price + FeeOf(call.quantity, call.price)
    /\ cash >= 0

----------------------------------------------------------------------------
(* C2 *)

\* C2: every position quantity is >= 0 in every reachable state, and a SELL
\* whose quantity (the quantity the execution goes on with, that is after the
\* dashboard's clip) exceeds the quantity held for that symbol, a symbol never
\* bought included, is rejected and changes no position.
C2_PositionsNeverNegative ==
    [][ /\ \A s \in Symbols : positions'[s] >= 0
        /\ (SellAttempt /\ call'.quantity > positions[call'.symbol])
              => (call'.ret = "rejected" /\ positions' = positions) ]_vars

\* A SELL of more than is held was attempted, for a symbol with a holding
\* smaller than the quantity.
C2_Witness ==
    /\ call.attempted /\ call.side = "SELL" /\ call.ret = "rejected"
    /\ positions[call.symbol] > 0
    /\ call.quantity > positions[call.symbol]

----------------------------------------------------------------------------
(* C3 *)

\* C3: a trade is recorded if and only if it was applied: every step either
\* changes cash and position[symbol] and appends exactly one Trade record, or
\* changes neither cash nor positions and appends no record.
C3_RecordedIffApplied ==
    [][ /\ trades' # trades =>
              /\ Len(trades') = Len(trades) + 1
              /\ cash' # cash
              /\ positions'[Last(trades').symbol] # positions[Last(trades').symbol]
        /\ (cash' # cash \/ positions' # positions) => trades' # trades ]_vars

----------------------------------------------------------------------------
(* C4 *)

\* C4: after every executed trade, position[symbol] x trade price is at most
\* max_position_size x total_value, also when the position was built by
\* several BUYs of the same symbol over several cycles.
C4_PositionWithinLimit ==
    (call.attempted /\ call.ret = "executed")
        => positions[call.symbol] * call.price <= PositionLimit

----------------------------------------------------------------------------
(* C5 *)

\* The largest quantity whose value at price p stays within the position limit.
LargestPermitted(p) == PositionLimit \div p

\* C5: when the value of a proposed trade, quantity x price, exceeds
\* max_position_size x total_value, the execution path of either simulator
\* clips the quantity to the largest permissible size and goes on with the
\* clipped trade instead of rejecting it outright: the call is turned down
\* only for a reason that also holds of the clipped trade.
C5_ClippedNotRejected ==
    [][ (TradeAttempt /\ call'.requested > LargestPermitted(call'.price)) =>
          LET clipped == LargestPermitted(call'.price)
              cost == clipped * call'.price + FeeOf(clipped, call'.price)
          IN /\ call'.quantity = clipped
             /\ call'.ret = "rejected" =>
                   \/ DailyLossBreached
                   \/ call'.side = "BUY" /\ cash < cost
                   \/ call'.side = "SELL" /\ positions[call'.symbol] < clipped ]_vars

----------------------------------------------------------------------------
(* C6 *)

\* C6: whenever daily_pnl < -max_daily_loss x total_value at the moment a
\* trade is attempted, in either simulator, the trade is blocked: cash,
\* positions and the trade log stay as they were.
C6_DailyLossGateBlocks ==
    [][ (TradeAttempt /\ DailyLossBreached) =>
          (call'.ret = "rejected" /\ PortfolioUnchanged) ]_vars

----------------------------------------------------------------------------
(* C7 *)

\* Some other symbol is held whose correlation with s exceeds the threshold
\* in magnitude, given the holdings pos.
CorrelatedHolding(s, pos) ==
    \E t \in Symbols \ {s} :
        /\ pos[t] # 0
        /\ (correlation_matrix(s, t) > 70 \/ correlation_matrix(s, t) < -70)

\* C7: in the advanced simulator a trade that would open a new position in a
\* symbol is rejected whenever another held symbol is correlated with it
\* beyond 0.7 in magnitude, so the portfolio never holds two such symbols.
C7_CorrelationGate ==
    [][ sim = "adv" =>
          /\ (TradeAttempt /\ positions[call'.symbol] = 0
                 /\ CorrelatedHolding(call'.symbol, positions))
                => (call'.ret = "rejected" /\ PortfolioUnchanged)
          /\ \A s \in Symbols :
                positions'[s] # 0 => ~CorrelatedHolding(s, positions') ]_vars

----------------------------------------------------------------------------
(* C8, C9 *)

\* The three risk gates, for a trade of quantity q (after the clip) of symbol
\* s at price p: position size, daily loss, and, where the simulator has a
\* correlation matrix and the trade opens a position, correlation.
PassesRiskGates(s, q, p) ==
    /\ q <= LargestPermitted(p)
    /\ ~DailyLossBreached
    /\ (sim = "adv" /\ positions[s] = 0) => ~CorrelatedHolding(s, positions)

\* Exactly one record was appended to the trade log, for this trade.
OneTradeAppended(s, side, q, p) ==
    /\ Len(trades') = Len(trades) + 1
    /\ \A i \in 1..Len(trades) : trades'[i] = trades[i]
    /\ Last(trades').symbol = s /\ Last(trades').side = side
    /\ Last(trades').quantity = q /\ Last(trades').price = p
    /\ Last(trades').fees = FeeOf(q, p)

\* C8: a BUY of quantity q at price p succeeds exactly when it passes the risk
\* gates and cash >= q*p + fee, fee = q*p*0.001; on success cash decreases by
\* exactly q*p + fee, position[symbol] increases by exactly q, every other
\* position is unchanged and one Trade with that fee is appended.
C8_BuyExact ==
    [][ BuyAttempt =>
          LET s == call'.symbol
              q == call'.quantity
              p == call'.price
              cost == q * p + FeeOf(q, p)
          IN /\ call'.ret = "executed" <=> (PassesRiskGates(s, q, p) /\ cash >= cost)
             /\ call'.ret = "executed" =>
                   /\ cash' = cash - cost
                   /\ positions' = [positions EXCEPT ![s] = @ + q]
                   /\ OneTradeAppended(s, "BUY", q, p)
             /\ call'.ret # "executed" => PortfolioUnchanged ]_vars

\* C9: a SELL of quantity q at price p succeeds exactly when it passes the
\* risk gates and position[symbol] >= q; on success cash increases by exactly
\* q*p - fee, fee = q*p*0.001, position[symbol] decreases by exactly q, every
\* other position is unchanged and one Trade is appended.
C9_SellExact ==
    [][ SellAttempt =>
          LET s == call'.symbol
              q == call'.quantity
              p == call'.price
              proceeds == q * p - FeeOf(q, p)
          IN /\ call'.ret = "executed" <=>
                   (PassesRiskGates(s, q, p) /\ positions[s] >= q)
             /\ call'.ret = "executed" =>
                   /\ cash' = cash + proceeds
                   /\ positions' = [positions EXCEPT ![s] = @ - q]
                   /\ OneTradeAppended(s, "SELL", q, p)
             /\ call'.ret # "executed" => PortfolioUnchanged ]_vars

----------------------------------------------------------------------------
(* C10 *)

\* C10: a trade that is not applied (risk-gate veto, insufficient cash for a
\* BUY, insufficient position for a SELL) is a normal outcome: the call
\* returns without raising, cash, positions and the trade log are left as
\* they were, the cycle goes on to the next symbol, or to the ledger update
\* after the last one, and the cycle ends only by performing that update.
C10_RejectionIsNormal ==
    [][ /\ (TradeAttempt /\ call'.ret # "executed") =>
              /\ call'.ret = "rejected"
              /\ PortfolioUnchanged
              /\ idx' = idx + 1
              /\ pc' = IF idx = Len(Assets) THEN "ledger" ELSE pc
        /\ pc' = "idle" /\ pc # "idle" =>
              /\ pc = "ledger"
              /\ Len(performance') = Len(performance) + 1
              /\ Last(performance').cash = cash
              /\ total_value' = Last(performance').total_value ]_vars

\* A trade for the first symbol was rejected and the cycle stands at the
\* second symbol.
C10_Witness ==
    /\ call.attempted /\ call.ret = "rejected"
    /\ call.symbol = Assets[1] /\ idx = 2
    /\ pc \in {"signals", "symbols"}

----------------------------------------------------------------------------
(* Vocabulary of the scheduling properties *)

\* Everything but the running flag and a get_status reply in flight.
CoreUnchanged ==
    UNCHANGED <<sim, pc, idx, price, market_data, cash, positions, trades,
                trade_count, total_value, daily_pnl, performance, call, events,
                max_drawdown, total_pnl, cycles>>

RECURSIVE HoldingsValue(_)
\* Sum over the symbols of q of position x current price.
HoldingsValue(q) ==
    IF q = <<>> THEN 0
    ELSE positions[Head(q)] * price[Head(q)] + HoldingsValue(Tail(q))

\* Between two cycles.
BetweenCycles == pc = "idle"

\* The step that ends a cycle.
CycleEnds == pc # "idle" /\ pc' = "idle"

\* Positions in events of the ticks and of the execute_trade calls of s.
TicksOf(s) == {i \in 1..Len(events) : events[i].kind = "tick" /\ events[i].symbol = s}
CallsOf(s) == {i \in 1..Len(events) : events[i].kind = "trade" /\ events[i].symbol = s}
Executions == {i \in 1..Len(events) : events[i].kind = "trade" /\ events[i].executed}
AllTicks == {i \in 1..Len(events) : events[i].kind = "tick"}

----------------------------------------------------------------------------
(* C11 *)

\* C11: after every completed cycle total_value equals cash plus the sum over
\* all symbols of position x that symbol's latest price, taken from the cash
\* and positions the cycle's executions left: no drift.
C11_NoDrift == BetweenCycles => total_value = cash + HoldingsValue(Assets)

\* A cycle has completed with a position held and marked at a price that
\* moved the total away from the cash.
C11_Witness ==
    /\ BetweenCycles /\ performance # <<>>
    /\ \E s \in Symbols : positions[s] > 0
    /\ total_value > cash
    /\ total_value # Dollars(1000000)

----------------------------------------------------------------------------
(* C12 *)

\* C12: a tick issued while the running flag is false is a no-op: from a
\* state between cycles with the flag false, no step changes prices, market
\* data, cash, positions, trades, portfolio metrics or the performance
\* history, and no cycle is entered.
C12_TickWhileStoppedIsNoOp ==
    [][ (~running /\ BetweenCycles) => CoreUnchanged ]_vars

\* The simulator was stopped after having traded, and a tick can be issued.
C12_Witness ==
    /\ ~running /\ BetweenCycles
    /\ performance # <<>> /\ trades # <<>>
    /\ Len(performance) < MaxCycles

----------------------------------------------------------------------------
(* C15 *)

\* C15: stop() during a cycle in flight lets the cycle run to completion: the
\* stop changes nothing but the flag, the stopped cycle can always take its
\* next step, and it ends only through the ledger update, after every asset
\* has been ticked; after it, every tick that begins before the next start()
\* changes no state.
C15_StopLetsCycleFinish ==
    /\ [][ /\ (~BetweenCycles /\ running' # running) => CoreUnchanged
           /\ CycleEnds =>
                 /\ \A s \in Symbols : TicksOf(s) # {}
                 /\ Len(performance') = Len(performance) + 1
           /\ (~running /\ BetweenCycles) => CoreUnchanged ]_vars
    /\ []((~running /\ ~BetweenCycles) => ENABLED <<Next>>_<<pc, idx>>)

\* stop() was called during a cycle, which has gone on to its ledger update.
C15_Witness == ~running /\ pc = "ledger" /\ Executions # {}

----------------------------------------------------------------------------
(* C16 *)

\* C16: start() and stop() are idempotent flag toggles: a step that changes
\* the running flag changes nothing else, start() on a running simulator and
\* stop() on a stopped one change nothing at all.
C16_StartStopIdempotent ==
    /\ [][ running' # running => CoreUnchanged /\ status' = status ]_vars
    /\ [](running => ~ENABLED <<start>>_vars)
    /\ [](~running => ~ENABLED <<stop>>_vars)

\* A simulator that has traded was stopped and started again; its portfolio
\* and histories are still there.
C16_Witness ==
    /\ running /\ BetweenCycles
    /\ trades # <<>> /\ performance # <<>>
    /\ \E s \in Symbols : positions[s] > 0

----------------------------------------------------------------------------
(* C17 *)

\* The ledger update runs once per cycle, strictly after the cycle's last
\* execution: the performance history grows only in the step that ends a
\* cycle, by one snapshot, with every asset ticked and no trade in that step,
\* and nothing executes between cycles.
LedgerOncePerCycle ==
    /\ performance' # performance => CycleEnds
    /\ CycleEnds =>
          /\ Len(performance') = Len(performance) + 1
          /\ \A s \in Symbols : TicksOf(s) # {}
          /\ trades' = trades /\ cash' = cash /\ positions' = positions
    /\ BetweenCycles => (trades' = trades /\ performance' = performance)

\* C17: within each cycle the ticks of all assets come first, then signals and
\* executions per asset, then the ledger update, which runs exactly once per
\* cycle, strictly after the last execution; no tick for any asset is
\* generated after a trade of the same cycle has executed.
C17_AllTicksBeforeTrades ==
    [][ /\ LedgerOncePerCycle
        /\ (\A i \in Executions, j \in AllTicks : j < i)' ]_vars

\* C17, amended: every asset's tick precedes that asset's execute_trade call
\* and the ledger update runs once per cycle, strictly after the last
\* execution; in the advanced simulator all ticks precede every call, in the
\* dashboard each asset's call follows its own tick at once, so the tick of a
\* later asset follows the trade of an earlier one.
C17_TicksBeforeOwnTrades ==
    [][ /\ LedgerOncePerCycle
        /\ (\A s \in Symbols : \A i \in CallsOf(s) :
                /\ \E j \in TicksOf(s) : j < i
                /\ sim = "adv" => \A j \in AllTicks : j < i
                /\ sim = "dash" => (i - 1) \in TicksOf(s))' ]_vars

\* In the dashboard the second asset was ticked after the first asset's trade
\* executed.
C17_Witness ==
    /\ sim = "dash"
    /\ \E i \in Executions, j \in AllTicks : i < j

----------------------------------------------------------------------------
(* C19 *)

\* C19: in the advanced simulator a trade is attempted for a symbol only when
\* the fused action is not HOLD and the fused confidence is strictly above
\* 0.3; the quantity is 1000 x confidence, a BUY is priced at the tick's ask
\* and a SELL at the tick's bid, and at most one trade per symbol is attempted
\* per cycle.
C19_TradeOnlyOnStrongSignal ==
    [][ (sim = "adv" /\ TradeAttempt) =>
          LET s == call'.symbol
          IN /\ call'.side \in {"BUY", "SELL"}
             /\ call'.confidence > 300
             /\ call'.requested = (1000 * call'.confidence) \div 1000
             /\ TicksOf(s) # {}
             /\ call'.price = IF call'.side = "BUY" THEN market_data[s].ask
                                                   ELSE market_data[s].bid
             /\ CallsOf(s) = {}
             /\ Cardinality({i \in 1..Len(events') :
                                events'[i].kind = "trade"
                                /\ events'[i].symbol = s}) = 1 ]_vars

\* A SELL was attempted at the bid, below the tick's price.
C19_Witness ==
    /\ sim = "adv" /\ call.attempted /\ call.side = "SELL"
    /\ call.confidence > 300
    /\ call.price = market_data[call.symbol].bid
    /\ call.price < market_data[call.symbol].price

----------------------------------------------------------------------------
(* C20 *)

\* C20: after each running cycle daily_pnl equals that cycle's total_value
\* minus the total_value of the snapshot before it, and is 0 after the first
\* cycle, when no earlier snapshot exists.
C20_DailyPnl ==
    /\ Len(performance) <= 1 => daily_pnl = 0
    /\ Len(performance) >= 2 =>
          daily_pnl = total_value - performance[Len(performance) - 1].total_value

\* The second cycle or a later one ended with a loss.
C20_Witness == Len(performance) >= 2 /\ daily_pnl < 0

----------------------------------------------------------------------------
(* C13 *)

\* C13: get_status is read-only: it can be called in any state, and the step
\* that produces its reply changes no core state (running flag, prices, cash,
\* positions, trades, metrics, performance history, position of the cycle).
C13_GetStatusReadOnly ==
    /\ [][ (status' # status) => (CoreUnchanged /\ running' = running) ]_vars
    /\ [](~status.present => ENABLED <<get_status>>_vars)

\* get_status has answered in the middle of a cycle, after a trade.
C13_Witness ==
    /\ status.present /\ ~BetweenCycles
    /\ call.attempted /\ call.ret = "executed"
    /\ status.cash = cash /\ status.total_value = total_value

----------------------------------------------------------------------------
(* C14 *)

\* What every state between two cycles satisfies (C11, C20): the total is
\* the cash plus the holdings at the prices shown, and the history ends with
\* the snapshot of that total.
WholeSnapshot(st) ==
    /\ st.total_value =
          st.cash + st.positions["BTC"] * st.assets["BTC"]
                  + st.positions["ETH"] * st.assets["ETH"]
    /\ st.performance_history # <<>> =>
          /\ Last(st.performance_history).total_value = st.total_value
          /\ Last(st.performance_history).cash = st.cash

\* C14: a status reader running concurrently with the dashboard's cycle loop
\* observes the complete pre-cycle state or the complete post-cycle state,
\* never a partially updated one such as new cash and positions with the old
\* total_value.
C14_ReaderSeesWholeCycle ==
    (sim = "dash" /\ status.present) => WholeSnapshot(status)

----------------------------------------------------------------------------
(* C18 *)

\* C18: the fusion of the two strategy outputs (a1, c1), (a2, c2): both
\* non-HOLD and equal gives that action with confidence (c1 + c2) / 2; one BUY
\* and one SELL gives (HOLD, 0); exactly one non-HOLD gives that action with
\* confidence max(c1, c2); both HOLD gives HOLD.
C18_Fusion ==
    fusion.present /\ fusion.done =>
        LET a1 == fusion.vwap.action
            c1 == fusion.vwap.confidence
            a2 == fusion.mr.action
            c2 == fusion.mr.confidence
            max == IF c1 > c2 THEN c1 ELSE c2
            out == fusion.fused
        IN /\ (a1 # "HOLD" /\ a2 # "HOLD" /\ a1 = a2) =>
                 (out.action = a1 /\ 2 * out.confidence = c1 + c2)
           /\ (a1 # "HOLD" /\ a2 # "HOLD" /\ a1 # a2) =>
                 (out.action = "HOLD" /\ out.confidence = 0)
           /\ (a1 # "HOLD" /\ a2 = "HOLD") =>
                 (out.action = a1 /\ out.confidence = max)
           /\ (a1 = "HOLD" /\ a2 # "HOLD") =>
                 (out.action = a2 /\ out.confidence = max)
           /\ (a1 = "HOLD" /\ a2 = "HOLD") => out.action = "HOLD"

\* A lone SELL was fused with a HOLD of higher confidence.
C18_Witness ==
    /\ fusion.present /\ fusion.done
    /\ fusion.vwap.action = "HOLD" /\ fusion.mr.action = "SELL"
    /\ fusion.vwap.confidence > fusion.mr.confidence
    /\ fusion.fused.action = "SELL"

----------------------------------------------------------------------------
(* C23 *)

\* C23: every recorded Trade has a strictly positive quantity, also after the
\* dashboard's position-size clip; and no execute_trade call that executes
\* carries a quantity of 0 or less.
C23_PositiveQuantity ==
    /\ \A i \in 1..Len(trades) : trades[i].quantity > 0
    /\ (call.attempted /\ call.ret = "executed") => call.quantity > 0

----------------------------------------------------------------------------
(* C21 *)

\* The step that ends a cycle appends the snapshot of the portfolio it leaves,
\* with the oldest snapshot dropped at most; no other step touches the history.
SnapshotPerCycle ==
    /\ (performance' # performance) => CycleEnds
    /\ CycleEnds =>
          LET snap == [total_value |-> total_value', cash |-> cash']
          IN \/ performance' = Append(performance, snap)
             \/ performance' = Tail(Append(performance, snap))

\* C21: every running cycle appends exactly one performance snapshot
\* (total_value, cash), in cycle order, and the length of the snapshot
\* sequence never exceeds a fixed bound (200), in both simulators.
C21_SnapshotsBounded ==
    /\ [][SnapshotPerCycle]_vars
    /\ [](Len(performance) <= HistoryCap)

----------------------------------------------------------------------------
(* C22 *)

\* The number a trade id spells.
RECURSIVE IdNumber(_)
IdNumber(id) ==
    IF id = <<>> THEN 0
    ELSE 10 * IdNumber(SubSeq(id, 1, Len(id) - 1)) + id[Len(id)]

\* a sorts before b as a string of digits.
IdBefore(a, b) ==
    \E k \in 1..Len(b) :
        /\ \A i \in 1..(k - 1) : i <= Len(a) /\ a[i] = b[i]
        /\ \/ k = Len(a) + 1
           \/ k <= Len(a) /\ a[k] < b[k]

\* C22: the trade log is append-only with monotonic ids: ids are unique and
\* strictly increasing in log order, T000001, T000002, ...; a recorded trade
\* is never modified; records leave only from the oldest end, when the window
\* of 200 is applied.
C22_TradeLogAppendOnly ==
    /\ [](\A i \in 1..(Len(trades) - 1) : IdBefore(trades[i].id, trades[i + 1].id))
    /\ [][ trades' # trades =>
             LET new == Last(trades')
             IN /\ Len(new.id) = 6
                /\ IdNumber(new.id) =
                      IF trades = <<>> THEN 1 ELSE IdNumber(Last(trades).id) + 1
                /\ \/ trades' = Append(trades, new)
                   \/ /\ Len(trades) = HistoryCap
                      /\ trades' = Tail(Append(trades, new)) ]_vars

\* The dashboard's window has dropped its oldest trades.
C22_Witness ==
    /\ sim = "dash" /\ Len(trades) = HistoryCap
    /\ IdNumber(trades[1].id) > 2

----------------------------------------------------------------------------
(* C25 *)

\* C25: after any sequence of cycles the portfolio's max_drawdown lies in
\* [0, 1], and computing it never divides by a zero peak.
C25_MaxDrawdownInRange ==
    /\ max_drawdown.den > 0
    /\ 0 <= max_drawdown.num /\ max_drawdown.num <= max_drawdown.den
    /\ pc # "raised"

\* A drawdown of more than half the peak has been recorded.
C25_Witness ==
    /\ BetweenCycles /\ Len(performance) >= 3
    /\ max_drawdown.num > max_drawdown.den - max_drawdown.num

----------------------------------------------------------------------------
(* C26 *)

\* The running maximum of total_value at snapshot i, the drawdown there, and
\* the largest drawdown of a history.
PeakAt(h, i) ==
    CHOOSE v \in {h[j].total_value : j \in 1..i} :
        \A w \in {h[j].total_value : j \in 1..i} : w <= v
DrawdownAt(h, i) == Ratio(PeakAt(h, i) - h[i].total_value, PeakAt(h, i))
WorstDrawdown(h) ==
    CHOOSE r \in {DrawdownAt(h, i) : i \in 1..Len(h)} :
        \A i \in 1..Len(h) : ~RatioLess(r, DrawdownAt(h, i))

\* C26: the max_drawdown reported after a cycle is the maximum over all
\* cycles run so far of (peak - value) / peak, peak being the running maximum
\* of total_value; hence it never decreases from one cycle to a later one,
\* also after more cycles than the history window holds.
C26_MaxDrawdownOverAllCycles ==
    /\ [][~RatioLess(max_drawdown', max_drawdown)]_vars
    /\ []((horizon = "short" /\ BetweenCycles /\ cycles >= 1) =>
             max_drawdown = WorstDrawdown(performance))

----------------------------------------------------------------------------
(* C27 *)

\* C27: after every cycle the total_pnl a status reply shows equals its
\* total_value minus the initial capital of 1,000,000, in both simulators.
C27_TotalPnl ==
    (status.present /\ BetweenCycles /\ cycles >= 1) =>
        status.total_pnl = status.total_value - Dollars(InitialCapital)

\* --- The indicator and strategy functions on their own ---

Applies(fn) == calc.present /\ calc.done /\ calc.fn = fn

ConstantPrice(prices) ==
    Len(prices) >= 1 /\ \A i \in 1..Len(prices) : prices[i] = prices[1]

StrictlyIncreasing(q) == \A i \in 1..(Len(q) - 1) : q[i] < q[i + 1]

StrictlyDecreasing(q) == \A i \in 1..(Len(q) - 1) : q[i] > q[i + 1]

\* A fraction with a positive denominator lies between lo and hi.
Within(x, lo, hi) == x.den > 0 /\ lo * x.den <= x.num /\ x.num <= hi * x.den

\* C24: every signal of the two strategies has an action among BUY, SELL
\* and HOLD and a confidence between 0 and 1, whatever positive prices and
\* volumes the strategy was fed.
C24_SignalsWellFormed ==
    (\/ Applies("AdvancedVWAPStrategy.generate_signal")
     \/ Applies("MeanReversionStrategy.generate_signal"))
    => /\ calc.result.action \in {"BUY", "SELL", "HOLD"}
       /\ Within(calc.result.confidence, 0, 1)

\* C28 as stated: the VWAP of a constant price p is p under any volumes
\* that are not negative.
C28_ConstantPriceAnyVolumes ==
    (Applies("calculate_vwap") /\ ConstantPrice(calc.prices)
        /\ Len(calc.volumes) = Len(calc.prices))
    => calc.result = [num |-> calc.prices[1], den |-> 1]

\* C28, amended: the VWAP of a constant price p is p as soon as one volume
\* is positive, and 0 when every volume is 0.
C28_ConstantPricePositiveVolume ==
    (Applies("calculate_vwap") /\ ConstantPrice(calc.prices)
        /\ Len(calc.volumes) = Len(calc.prices))
    => IF \E i \in 1..Len(calc.volumes) : calc.volumes[i] > 0
       THEN calc.result = [num |-> calc.prices[1], den |-> 1]
       ELSE calc.result = [num |-> 0, den |-> 1]

C28_Witness ==
    /\ Applies("calculate_vwap") /\ ConstantPrice(calc.prices)
    /\ Len(calc.prices) = MaxVwapLen
    /\ \E i, j \in 1..Len(calc.volumes) :
          calc.volumes[i] = 0 /\ calc.volumes[j] = MaxVolume
    /\ calc.result.num = calc.prices[1]

\* C29: the RSI of both simulators lies between 0 and 100; it is 50 for
\* fewer than period + 1 prices and, from period + 1 prices on, 100 when the
\* prices rise strictly and 0 when they fall strictly.
C29_RsiRange ==
    (Applies("calculate_rsi") \/ Applies("_calculate_rsi"))
    => /\ Within(calc.result, 0, 100)
       /\ Len(calc.prices) < 15 => calc.result = [num |-> 50, den |-> 1]
       /\ (Len(calc.prices) >= 15 /\ StrictlyIncreasing(calc.prices))
             => calc.result = [num |-> 100, den |-> 1]
       /\ (Len(calc.prices) >= 15 /\ StrictlyDecreasing(calc.prices))
             => calc.result = [num |-> 0, den |-> 1]

C29_Witness ==
    /\ Applies("_calculate_rsi")
    /\ Len(calc.prices) >= 15 /\ StrictlyDecreasing(calc.prices)
    /\ calc.result.num = 0

\* C30: the Bollinger bands are ordered, upper >= middle >= lower, and all
\* three are 0 for fewer than period (20) prices.
C30_BandsOrdered ==
    Applies("calculate_bollinger_bands")
    => LET upper == calc.result.upper
           middle == calc.result.middle
           lower == calc.result.lower
       IN /\ upper.den > 0 /\ middle.den > 0 /\ lower.den > 0
          /\ upper.num * middle.den >= middle.num * upper.den
          /\ middle.num * lower.den >= lower.num * middle.den
          /\ Len(calc.prices) < 20
                => (upper.num = 0 /\ middle.num = 0 /\ lower.num = 0)

C30_Witness ==
    /\ Applies("calculate_bollinger_bands")
    /\ Len(calc.prices) > 20
    /\ calc.result.upper.num * calc.result.middle.den
          > calc.result.middle.num * calc.result.upper.den
    /\ calc.result.lower.num > 0

----------------------------------------------------------------------------
(* C39 *)

\* C39: the dashboard's trade log never holds more than 200 records; it
\* holds the last min(trade_count, 200) trades, whose ids are consecutive and
\* end at trade_count; trade_count never decreases.
C39_LastTradesKept ==
    /\ [](sim = "dash" =>
            /\ Len(trades) <= 200
            /\ Len(trades) = (IF trade_count < 200 THEN trade_count ELSE 200)
            /\ \A i \in 1..Len(trades) :
                  IdNumber(trades[i].id) = trade_count - Len(trades) + i)
    /\ [][sim = "dash" => trade_count' >= trade_count]_vars

\* More than 200 trades were executed: the oldest ones have left the log.
C39_Witness ==
    sim = "dash" /\ trade_count > 200 /\ Len(trades) = 200
        /\ IdNumber(trades[1].id) = trade_count - 199

----------------------------------------------------------------------------
(* C32 *)

\* What a trade log says a symbol's position is: bought minus sold.
RECURSIVE NetQuantity(_, _)
NetQuantity(log, s) ==
    IF log = <<>> THEN 0
    ELSE LET t == Head(log)
         IN (IF t.symbol # s THEN 0
             ELSE IF t.side = "BUY" THEN t.quantity ELSE -t.quantity)
            + NetQuantity(Tail(log), s)

\* What a trade log says was received in cash: minus quantity x price + fees
\* for a BUY, plus quantity x price - fees for a SELL.
RECURSIVE NetCash(_)
NetCash(log) ==
    IF log = <<>> THEN 0
    ELSE LET t == Head(log)
         IN (IF t.side = "BUY" THEN -(t.quantity * t.price + t.fees)
             ELSE t.quantity * t.price - t.fees)
            + NetCash(Tail(log))

\* C32: in the advanced simulator every position is what the trade log says
\* was bought minus sold, cash is 1,000,000 plus the cash flow of the log, and
\* cash and positions change only in a step that appends an executed trade.
C32_LedgerConservation ==
    /\ [](sim = "adv" =>
            /\ \A s \in Symbols : positions[s] = NetQuantity(trades, s)
            /\ cash = Dollars(1000000) + NetCash(trades))
    /\ [][(sim = "adv" /\ (cash' # cash \/ positions' # positions))
              => /\ Len(trades') = Len(trades) + 1
                 /\ call'.attempted /\ call'.ret = "executed"]_vars

\* The advanced simulator has bought and sold.
C32_Witness ==
    /\ sim = "adv"
    /\ \E i, j \in 1..Len(trades) : trades[i].side = "BUY" /\ trades[j].side = "SELL"
    /\ cash # Dollars(1000000)

----------------------------------------------------------------------------
(* C35 *)

\* C35: check_daily_loss_limit blocks exactly when the daily P&L it is given
\* is below -max_daily_loss x total_value: a loss of up to that fraction of
\* the portfolio's value passes.
C35_DailyLossFraction ==
    Applies("check_daily_loss_limit")
    => (calc.result.passes
          <=> ~(calc.new_pnl < -((calc.total_value \div 100) * calc.max_daily_loss)))

----------------------------------------------------------------------------
(* C36 *)

\* The least price of an asset class, in ten-thousandths of a dollar: 1.0 for
\* stocks, 0.01 for crypto assets, none for the other classes.
ClassMinimum(asset_type) ==
    IF asset_type = "stock" THEN 10000 ELSE IF asset_type = "crypto" THEN 100 ELSE 0

\* C36: every tick price of either simulator is strictly positive and at
\* least the minimum of the asset's class, whatever the random draw.
C36_TickPriceFloored ==
    (Applies("generate_market_data") \/ Applies("update_market_data"))
    => /\ calc.result.price > 0
       /\ calc.result.price >= ClassMinimum(calc.asset_type)

----------------------------------------------------------------------------
(* C37 *)

\* The last n entries of a list, in order.
Recent(q, n) ==
    LET m == IF Len(q) < n THEN Len(q) ELSE n
    IN [i \in 1..m |-> q[Len(q) - m + i]]

\* The volume-weighted average of the prices P under the volumes V, 0 when
\* nothing was traded.
VwapOf(P, V) ==
    LET total == QSum([i \in 1..Len(V) |-> FromInt(V[i])])
    IN IF total.num = 0 THEN FromInt(0)
       ELSE QDiv(QSum([i \in 1..Len(P) |-> FromInt(P[i] * V[i])]), total)

\* The least-squares slope of P against 0, 1, 2, ...: the covariance of
\* index and price over the variance of the index.
SlopeOf(P) ==
    LET n == Len(P)
        xbar == Ratio(n - 1, 2)
        ybar == QDiv(QSum([i \in 1..n |-> FromInt(P[i])]), FromInt(n))
    IN QDiv(QSum([i \in 1..n |-> QMul(QSub(FromInt(i - 1), xbar),
                                       QSub(FromInt(P[i]), ybar))]),
            QSum([i \in 1..n |-> QMul(QSub(FromInt(i - 1), xbar),
                                       QSub(FromInt(i - 1), xbar))]))

\* The volatility damping factor 1 / (1 + 100 x volatility), the volatility
\* being the sample standard deviation of the returns of P: the root of
\* (sum of squares - square of the sum / m) / (m - 1) over the m returns.
DampingOf(P) ==
    LET m == Len(P) - 1
        r == [i \in 1..m |-> QDiv(FromInt(P[i + 1] - P[i]), FromInt(P[i]))]
        sum == QSum(r)
        squares == QSum([i \in 1..m |-> QMul(r[i], r[i])])
        variance == QDiv(QSub(squares, QDiv(QMul(sum, sum), FromInt(m))),
                         FromInt(m - 1))
        volatility == sqrt(variance)
    IN IF volatility.num = 0 THEN FromInt(1)
       ELSE QDiv(FromInt(1), QAdd(FromInt(1), QMul(FromInt(100), volatility)))

\* score = 0.4 x (price - vwap) / vwap + 0.4 x momentum / price
\*         + 0.2 x damping, over the last 20 points.
ScoreOf(prices, volumes) ==
    LET P == Recent(prices, 20)
        V == Recent(volumes, 20)
        current == FromInt(prices[Len(prices)])
        vwap == VwapOf(P, V)
    IN QAdd(QAdd(QMul(Ratio(2, 5), QDiv(QSub(current, vwap), vwap)),
                 QMul(Ratio(2, 5), QDiv(SlopeOf(P), current))),
            QMul(Ratio(1, 5), DampingOf(P)))

\* C37: with 5 points or more the VWAP strategy returns BUY iff the score is
\* below -0.02, SELL iff it is above 0.02 and HOLD otherwise, with the
\* absolute value of the score as confidence in all three cases.
C37_VwapSignalFromScore ==
    (Applies("AdvancedVWAPStrategy.generate_signal") /\ Len(calc.prices) >= 5)
    => LET score == ScoreOf(calc.prices, calc.volumes)
       IN /\ calc.result.action = "BUY" <=> RatioLess(score, [num |-> -1, den |-> 50])
          /\ calc.result.action = "SELL" <=> RatioLess([num |-> 1, den |-> 50], score)
          /\ calc.result.action \in {"BUY", "SELL", "HOLD"}
          /\ calc.result.confidence =
                [num |-> IF score.num < 0 THEN -score.num ELSE score.num,
                 den |-> score.den]

\* A score between the thresholds and different from 0: HOLD with a
\* confidence that is not 0.
C37_Witness ==
    /\ Applies("AdvancedVWAPStrategy.generate_signal") /\ Len(calc.prices) >= 5
    /\ calc.result.action = "HOLD" /\ calc.result.confidence.num > 0

----------------------------------------------------------------------------
(* C38 *)

\* The Bollinger bands of the last 20 prices: the mean plus and minus twice
\* the standard deviation, the root of (mean of the squares - square of the
\* mean).
BandsOf(prices) ==
    LET P == Recent(prices, 20)
        mean == QDiv(QSum([i \in 1..20 |-> FromInt(P[i])]), FromInt(20))
        squares == QDiv(QSum([i \in 1..20 |-> FromInt(P[i] * P[i])]), FromInt(20))
        sd == sqrt(QSub(squares, QMul(mean, mean)))
    IN [upper |-> QAdd(mean, QMul(FromInt(2), sd)),
        lower |-> QSub(mean, QMul(FromInt(2), sd))]

\* The RSI of 15 prices or more: 100 x gains / (gains + losses) over the
\* last 14 changes, 100 without losses.
RsiOf(prices) ==
    LET P == Recent(prices, 15)
        gains == QSum([i \in 1..14 |->
                          FromInt(IF P[i + 1] > P[i] THEN P[i + 1] - P[i] ELSE 0)])
        losses == QSum([i \in 1..14 |->
                           FromInt(IF P[i + 1] < P[i] THEN P[i] - P[i + 1] ELSE 0)])
    IN IF losses.num = 0 THEN FromInt(100)
       ELSE QDiv(QMul(FromInt(100), gains), QAdd(gains, losses))

\* Twice the distance beyond the band as a fraction of the band, at most 1.
BeyondBand(distance, band) ==
    LET twice == QDiv(QMul(FromInt(2), distance), band)
    IN IF RatioLess(FromInt(1), twice) THEN FromInt(1) ELSE twice

\* C38: with 20 points or more the mean-reversion strategy returns BUY iff
\* the price is below the lower band and the RSI below 30, SELL iff the price
\* is above the upper band and the RSI above 70, and HOLD with confidence 0
\* otherwise; the confidence of a BUY or SELL is twice the relative distance
\* beyond the band, capped at 1.
C38_MeanReversionSignal ==
    (Applies("MeanReversionStrategy.generate_signal") /\ Len(calc.prices) >= 20)
    => LET history == Recent(calc.prices, 40)
           last == FromInt(calc.prices[Len(calc.prices)])
           bands == BandsOf(history)
           rsi == RsiOf(history)
           buy == RatioLess(last, bands.lower) /\ RatioLess(rsi, FromInt(30))
           sell == RatioLess(bands.upper, last) /\ RatioLess(FromInt(70), rsi)
       IN /\ calc.result.action = "BUY" <=> buy
          /\ calc.result.action = "SELL" <=> sell
          /\ (~buy /\ ~sell) => calc.result = Signal("HOLD", FromInt(0))
          /\ buy => calc.result.confidence
                       = BeyondBand(QSub(bands.lower, last), bands.lower)
          /\ sell => calc.result.confidence
                        = BeyondBand(QSub(last, bands.upper), bands.upper)
          /\ Within(calc.result.confidence, 0, 1)

\* A SELL above the upper band whose confidence is below the cap.
C38_Witness ==
    /\ Applies("MeanReversionStrategy.generate_signal") /\ Len(calc.prices) >= 20
    /\ calc.result.action = "SELL"
    /\ calc.result.confidence.num > 0
    /\ calc.result.confidence.num < calc.result.confidence.den

----------------------------------------------------------------------------
(* C34 *)

\* The prices and volumes fed to the strategy object so far.
FedPrices == SubSeq(calc.prices, 1, calc.calls)
FedVolumes == SubSeq(calc.volumes, 1, calc.calls)

IsVwapStrategy == calc.present /\ calc.fn = "AdvancedVWAPStrategy"
IsMrStrategy == calc.present /\ calc.fn = "MeanReversionStrategy"

\* C34 as stated: after any number of generate_signal calls the price history
\* of either strategy holds at most 20 prices, the most recent ones in
\* arrival order, and the VWAP strategy's volume history is as long as its
\* price history.
C34_BuffersWithinPeriod ==
    /\ IsVwapStrategy
          => /\ Len(calc.price_history) <= 20
             /\ calc.price_history = Recent(FedPrices, Len(calc.price_history))
             /\ Len(calc.volume_history) = Len(calc.price_history)
    /\ IsMrStrategy
          => /\ Len(calc.price_history) <= 20
             /\ calc.price_history = Recent(FedPrices, Len(calc.price_history))

\* C34, amended: the VWAP strategy keeps the 20 most recent prices and
\* volumes and the mean-reversion strategy the 40 most recent prices (twice
\* its period), in arrival order.
C34_BuffersWithinLimit ==
    /\ IsVwapStrategy
          => /\ calc.price_history = Recent(FedPrices, 20)
             /\ calc.volume_history = Recent(FedVolumes, 20)
    /\ IsMrStrategy
          => calc.price_history = Recent(FedPrices, 40)

\* The mean-reversion strategy after more calls than it keeps prices.
C34_Witness ==
    /\ IsMrStrategy /\ calc.calls = 42
    /\ Len(calc.price_history) = 40
    /\ calc.price_history[1] = calc.prices[3]

----------------------------------------------------------------------------
(* C33 *)

\* The least number of points with which a strategy computes a signal.
MinimumPoints == IF IsVwapStrategy THEN 5 ELSE 20

StrategyActive == Len(calc.price_history) >= MinimumPoints

\* C33: a strategy with fewer points than its minimum (5 for the VWAP
\* strategy, 20 for the mean-reversion strategy) returns HOLD with
\* confidence 0; it is active from the call that reaches the minimum on and
\* stays active.
C33_WarmupThenActive ==
    /\ []((IsVwapStrategy \/ IsMrStrategy)
            => /\ (calc.done /\ ~StrategyActive)
                    => calc.result = Signal("HOLD", FromInt(0))
               /\ StrategyActive <=> calc.calls >= MinimumPoints)
    /\ [][((IsVwapStrategy \/ IsMrStrategy) /\ StrategyActive)
            => StrategyActive']_vars

\* An active strategy, its history full, that returns a BUY or a SELL.
C33_Witness ==
    /\ IsVwapStrategy \/ IsMrStrategy
    /\ calc.done /\ StrategyActive
    /\ calc.calls > (IF IsVwapStrategy THEN 20 ELSE 40)
    /\ "action" \in DOMAIN calc.result
    /\ calc.result.action \in {"BUY", "SELL"}

----------------------------------------------------------------------------
(* C31 *)

\* C31: whatever non-negative prices and volumes a strategy is fed, every
\* generate_signal call returns a signal and raises no error: divisions by a
\* total volume, a VWAP, a previous price or a band of 0 fall back to a
\* defined value, and a history too short yields HOLD with confidence 0.
C31_StrategiesNeverRaise ==
    ((IsVwapStrategy \/ IsMrStrategy) /\ calc.done)
    => /\ "action" \in DOMAIN calc.result
       /\ calc.result.action \in {"BUY", "SELL", "HOLD"}
       /\ ~StrategyActive => calc.result = Signal("HOLD", FromInt(0))

====
